---- MODULE Spec2Model ----
(***************************************************************************)
(* A model of the TLCS relay client of en-croissant:                       *)
(*   - TlcsRecorder (src-tauri/src/tlcs.rs): tokens -> position, move      *)
(*     list, result and PGN text;                                          *)
(*   - the control-channel TlcsManager and its run_connection task         *)
(*     (src-tauri/src/tlcs.rs);                                            *)
(*   - the subscription TlcsManager and its run_connection task            *)
(*     (src-tauri/src/tlcs_client.rs), with its writer mutex;              *)
(*   - update_state_from_line and RotatingLog, by one writer and by two    *)
(*     (src-tauri/src/tlcs.rs);                                            *)
(*   - start_tlcs_stream and stop_tlcs_stream (src-tauri/src/tlcs.rs).     *)
(* The parts share no state; each has a specification of its own.          *)
(***************************************************************************)
EXTENDS Integers, Sequences, FiniteSets, TLC

VARIABLES
  \* ---- TlcsRecorder (tlcs.rs) ----
  startPos,     \* the position the recorder was created from (start_fen)
  position,     \* TlcsRecorder.position
  moves,        \* TlcsRecorder.moves: coordinate strings, in play order
  result,       \* TlcsRecorder.result: None or a result marker
  output,       \* the text handed to TlcsRecorder.writer after the headers
  pending,      \* tokens of the line being processed by append_moves_from_line
  ret,          \* what the last append_moves_from_line returned ("ok" | "err"), "busy" inside a call
  last,         \* the last append_token call: token, classification, outcome, text written
  applied,      \* number of append_token calls that played a move on position
  lines         \* number of lines fed so far

recVars == <<startPos, position, moves, result, output, pending, ret, last, applied, lines>>

VARIABLES
  \* ---- control-channel TlcsManager and its run_connection tasks (tlcs.rs) ----
  handle,       \* TlcsManager.handle: None or the task whose handle is installed
  lastOptions,  \* TlcsManager.last_options: None or the last connect arguments
  cpc,          \* per caller: where it is in connect / disconnect / reconnect
  cargs,        \* per caller: the options of the connect in progress
  cheld,        \* per caller: the handle it took out of the slot, or the one it spawned
  cret,         \* what the last call on the manager returned
  tpc,          \* per task: where run_connection is
  topts,        \* per task: its connection options
  chan,         \* per task: the control messages queued on its channel
  txOpen,       \* per task: the channel's sender (owned by the handle) still exists
  tstatus,      \* per task: the last status it emitted
  gameOn,       \* per task: game_state.can_offer_draw of the session
  cop,          \* per caller: the call it is in ("connect", "reconnect", "disconnect")
  why,          \* per task, at line 596: how the attempt that just ended did end
  submitted,    \* how many Send commands send_action has queued (the last one's number)
  sent,         \* per task: the frames written to the socket of its latest session
  writtenIds,   \* the numbers of the Send commands written to a socket, in write order
  inbox,        \* per task: the lines that arrived on its socket and are not read yet
  lastArrived,  \* per task: the tag of the line that arrived last (0: none)
  lastEvent     \* per task: the tag of the line of the last game event (0: none)

sockVars == <<submitted, sent, writtenIds, inbox, lastArrived, lastEvent>>

supVars == <<handle, lastOptions, cpc, cargs, cheld, cret, cop, tpc, topts, chan, txOpen,
             tstatus, gameOn, why, sockVars>>


VARIABLES
  \* ---- subscription TlcsManager and its tasks (tlcs_client.rs) ----
  writer,         \* TlcsManager.writer: None or the task whose write half is in the slot
  subscriptions,  \* TlcsManager.subscriptions
  connectionTask, \* TlcsManager.connection_task: None or the task of the handle
  keepAliveTask,  \* TlcsManager.keep_alive_task is Some (its ticker is running)
  shutdownTx,     \* TlcsManager.shutdown_tx: None or the task its receiver belongs to
  reconnect,      \* TlcsManager.reconnect
  mpc,            \* where the manager call in progress is ("idle" between calls)
  mheld,          \* the connection handle shutdown() is awaiting
  mgame,          \* subscribe_game in progress: its game id
  mafter,         \* subscribe_game in progress: it began on an installed connection
  mbefore,        \* subscribe_game in progress: the subscription set it began with
  mrec,           \* connect in progress: its reconnect argument
  mret,           \* what the last manager call returned
  kpc,            \* per task: where run_connection is
  krec,           \* per task: its reconnect argument
  stop,           \* per task: shutdown has been signalled on its watch channel
  backoff,        \* per task: its backoff, in seconds
  fails,          \* per task: failed or dropped attempts since the last successful dial
  subs,           \* per task: ids resend_subscriptions has still to send
  wire,           \* frames written on the connection in the writer slot, in order
  subsAtInstall   \* the subscription set when that connection was installed

cliVars == <<writer, subscriptions, connectionTask, keepAliveTask, shutdownTx, reconnect,
             mpc, mheld, mgame, mafter, mbefore, mrec, mret, kpc, krec, stop, backoff, fails, subs,
             wire, subsAtInstall>>

VARIABLES
  \* ---- the game state of a session (tlcs.rs: handle_stream, update_state_from_line) ----
  gameState,    \* game_state of the session
  gprev,        \* game_state before the last update_state_from_line
  gline,        \* the line of the last update_state_from_line
  gseen,        \* lines processed in the session so far
  lastOffer     \* the last line of the session that was an offer line, if any

gameVars == <<gameState, gprev, gline, gseen, lastOffer>>

VARIABLES
  \* ---- RotatingLog (tlcs.rs) ----
  logFiles,     \* the files of the log: index 0 is the primary, index i is backup i
  logGen,       \* primary files created so far (each is a generation)
  rotated,      \* the generations renamed away from the primary, most recent first
  logClean,     \* no rename has failed so far
  logLast,      \* the last write: whether it rotated, the primary size it found, the size of its line
  logWrites     \* number of writes so far

logVars == <<logFiles, logGen, rotated, logClean, logLast, logWrites>>

VARIABLES
  \* ---- the writer mutex of the subscription TlcsManager (tlcs_client.rs) ----
  wlock,        \* who holds TlcsManager.writer's mutex (None: nobody)
  wpc,          \* per writer: where it is in the frame it is sending
  slot,         \* the slot behind the mutex holds a write half
  bytes,        \* the parts of frames written to that write half, in order
  started       \* frames begun so far (the last one's number)

wrVars == <<wlock, wpc, slot, bytes, started>>

VARIABLES
  \* ---- start_tlcs_stream / stop_tlcs_stream and the recording tasks (tlcs.rs) ----
  tlcsHandle,   \* AppState.tlcs_handle: None or the recording task of the handle
  streamTask,   \* per recording task: where it is, and the PGN path of its recorder
  pgnFiles,     \* per PGN path: what the file holds
  streamRet,    \* what the last start_tlcs_stream / stop_tlcs_stream returned
  streamLast,   \* the last start_tlcs_stream call: the step it failed at, the slot it found
  spawned,      \* recording tasks spawned so far
  starts        \* start_tlcs_stream calls so far

strVars == <<tlcsHandle, streamTask, pgnFiles, streamRet, streamLast, spawned, starts>>

VARIABLES
  \* ---- two writers of one RotatingLog path (tlcs.rs) ----
  rnames,       \* per file name of the log: the file under it (0: none)
  rfiles,       \* per file: the pieces written to it, in order
  rpc,          \* per writer: where it is in RotatingLog::write
  rlines,       \* lines whose write has begun so far
  discarded     \* the files a rename has replaced, with the name they had

raceVars == <<rnames, rfiles, rpc, rlines, discarded>>

vars == <<recVars, supVars, cliVars, gameVars, logVars, wrVars, strVars, raceVars>>

\* What the steps of one part leave alone: the state of the other parts.
notRecVars == <<supVars, cliVars, gameVars, logVars, wrVars, strVars, raceVars>>
notSupVars == <<recVars, cliVars, gameVars, logVars, wrVars, strVars, raceVars>>
notCliVars == <<recVars, supVars, gameVars, logVars, wrVars, strVars, raceVars>>
notGameVars == <<recVars, supVars, cliVars, logVars, wrVars, strVars, raceVars>>
notLogVars == <<recVars, supVars, cliVars, gameVars, wrVars, strVars, raceVars>>
notWrVars == <<recVars, supVars, cliVars, gameVars, logVars, strVars, raceVars>>
notStrVars == <<recVars, supVars, cliVars, gameVars, logVars, wrVars, raceVars>>
notRaceVars == <<recVars, supVars, cliVars, gameVars, logVars, wrVars, strVars>>

None == "none"

\* ---------------------------------------------------------------------
\* Bounds of the model
\* ---------------------------------------------------------------------
MaxLines == 3
MaxTasks == 2
MaxQueue == 2
\* tlcs.rs: Send commands ever queued, and lines waiting unread on a socket.
MaxCmds == 2
MaxInbox == 2
\* tlcs_client.rs: connection tasks ever spawned, frames kept of one
\* connection, and the value at which the count of failed attempts saturates.
MaxConns == 2
MaxWire == 3
MaxFails == 7
\* Lines processed in one session of the game-state model.
MaxGameLines == 3
\* Writes to the rotating log.
MaxLogWrites == 7
\* tlcs_client.rs: frames begun under the writer mutex.
MaxFrames == 3
MaxStreams == 3
MaxStarts == 4
MaxRaceWrites == 4

\* ---------------------------------------------------------------------
\* Text helpers
\* ---------------------------------------------------------------------
Ch(s, i) == IF 1 <= i /\ i <= Len(s) THEN SubSeq(s, i, i) ELSE ""

Digits == {"0", "1", "2", "3", "4", "5", "6", "7", "8", "9"}
Files == {"a", "b", "c", "d", "e", "f", "g", "h"}
Ranks == {"1", "2", "3", "4", "5", "6", "7", "8"}
UpperCase == {"A", "B", "C", "D", "E", "F", "G", "H", "I", "J", "K", "L", "M",
              "N", "O", "P", "Q", "R", "S", "T", "U", "V", "W", "X", "Y", "Z"}
WhiteSpace == {" ", "\t", "\r", "\n"}

AllDigits(s) == \A i \in 1..Len(s) : Ch(s, i) \in Digits

\* str::split on one separator set: the pieces between separators, empty pieces kept.
RECURSIVE SplitFrom(_, _, _, _)
SplitFrom(s, seps, i, cur) ==
  IF i > Len(s) THEN <<cur>>
  ELSE IF Ch(s, i) \in seps THEN <<cur>> \o SplitFrom(s, seps, i + 1, "")
  ELSE SplitFrom(s, seps, i + 1, cur \o Ch(s, i))

Split(s, seps) == SplitFrom(s, seps, 1, "")

RECURSIVE FlatMapSplit(_, _)
FlatMapSplit(q, seps) ==
  IF q = <<>> THEN <<>> ELSE Split(Head(q), seps) \o FlatMapSplit(Tail(q), seps)

\* Iterator::filter(|t| !t.is_empty())
RECURSIVE DropEmpty(_)
DropEmpty(q) ==
  IF q = <<>> THEN <<>>
  ELSE (IF Head(q) # "" THEN <<Head(q)>> ELSE <<>>) \o DropEmpty(Tail(q))

\* Iterator::filter(|t| !t.chars().all(|c| c.is_ascii_digit()))
RECURSIVE DropNumbers(_)
DropNumbers(q) ==
  IF q = <<>> THEN <<>>
  ELSE (IF AllDigits(Head(q)) THEN <<>> ELSE <<Head(q)>>) \o DropNumbers(Tail(q))

\* str::split_whitespace: the pieces between runs of whitespace, no empty piece.
SplitWhitespace(s) == DropEmpty(Split(s, WhiteSpace))

\* TlcsRecorder::tokens_from_line. The pieces hold no whitespace, so the
\* trim() of the source changes nothing.
TokensFromLine(line) ==
  DropNumbers(DropEmpty(FlatMapSplit(SplitWhitespace(line), {"."})))

\* ---------------------------------------------------------------------
\* The rules engine (shakmaty), as the recorder uses it.  The model keeps a
\* fragment of chess: the squares below, the quiet moves of MoveTable between
\* them, and two starting positions.  Every other square never changes in the
\* fragment, and no move of the fragment gives check.
\* ---------------------------------------------------------------------
Squares == {"e2", "e4", "e7", "e5", "g1", "f3", "b8", "c6", "a7", "a8"}

\* Chess::default(), on the squares of the fragment.
StdStart ==
  [board |-> [sq \in Squares |->
                CASE sq = "e2" -> "P" [] sq = "g1" -> "N"
                  [] sq = "e7" -> "p" [] sq = "b8" -> "n"
                  [] sq = "a7" -> "p" [] sq = "a8" -> "r"
                  [] OTHER -> ""],
   turn |-> "w"]

\* options.initial_fen = "8/P7/8/8/8/1k6/8/6K1 w - - 0 1": a pawn about to promote.
PromoStart ==
  [board |-> [sq \in Squares |-> IF sq = "a7" THEN "P" ELSE ""],
   turn |-> "w"]

StartPositions == {StdStart, PromoStart}

Mv(from, to, role, color, promo) ==
  [from |-> from, to |-> to, role |-> role, color |-> color, promo |-> promo]

\* The moves the fragment knows (geometry only; legality depends on the position).
MoveTable ==
  { Mv("e2", "e4", "P", "w", ""), Mv("e7", "e5", "P", "b", ""),
    Mv("g1", "f3", "N", "w", ""), Mv("f3", "g1", "N", "w", ""),
    Mv("b8", "c6", "N", "b", ""), Mv("c6", "b8", "N", "b", ""),
    Mv("a7", "a8", "P", "w", "Q") }

Lower(c) ==
  CASE c = "P" -> "p" [] c = "N" -> "n" [] c = "B" -> "b"
    [] c = "R" -> "r" [] c = "Q" -> "q" [] c = "K" -> "k" [] OTHER -> c

PieceOf(role, color) == IF color = "w" THEN role ELSE Lower(role)

\* Position::legal_moves, restricted to the fragment.
Legal(pos, m) ==
  /\ m \in MoveTable
  /\ pos.turn = m.color
  /\ pos.board[m.from] = PieceOf(m.role, m.color)
  /\ pos.board[m.to] = ""

LegalMoves(pos) == {m \in MoveTable : Legal(pos, m)}

\* Position::play_unchecked
Play(pos, m) ==
  [board |-> [sq \in Squares |->
                IF sq = m.from THEN ""
                ELSE IF sq = m.to
                  THEN PieceOf(IF m.promo # "" THEN m.promo ELSE m.role, m.color)
                ELSE pos.board[sq]],
   turn |-> IF pos.turn = "w" THEN "b" ELSE "w"]

NoParse == [ok |-> FALSE]

\* SanPlus::from_ascii: an optional "+" or "#" suffix, then San::from_ascii:
\*   [role letter] [from file] [from rank] ["x"] to-file to-rank ["=" role].
\* A coordinate pawn move such as "e2e4" is valid algebraic syntax (a pawn
\* move with both disambiguators), and so is "g1f3" (a pawn from g1 to f3).
\* Castling, null moves and drops are outside the fragment.
SanFromAscii(tok) ==
  LET sfx == IF Len(tok) > 0 /\ Ch(tok, Len(tok)) \in {"+", "#"}
             THEN Ch(tok, Len(tok)) ELSE ""
      s == IF sfx # "" THEN SubSeq(tok, 1, Len(tok) - 1) ELSE tok
      n == Len(s)
      hasRole == Ch(s, 1) \in UpperCase
      role == IF hasRole THEN Ch(s, 1) ELSE "P"
      i1 == IF hasRole THEN 2 ELSE 1
      hasFile == Ch(s, i1) \in Files
      i2 == IF hasFile THEN i1 + 1 ELSE i1
      hasRank == Ch(s, i2) \in Ranks
      i3 == IF hasRank THEN i2 + 1 ELSE i2
      file == IF hasFile THEN Ch(s, i1) ELSE ""
      rank == IF hasRank THEN Ch(s, i2) ELSE ""
      San(f, r, cap, to, p) ==
        [ok |-> TRUE, role |-> role, file |-> f, rank |-> r, capture |-> cap,
         to |-> to, promo |-> p, suffix |-> sfx]
      \* the optional promotion that starts at index j
      Promo(j, f, r, cap, to) ==
        IF j > n THEN San(f, r, cap, to, "")
        ELSE IF Ch(s, j) = "=" /\ Ch(s, j + 1) \in {"N", "B", "R", "Q", "K"} /\ j + 1 = n
          THEN San(f, r, cap, to, Ch(s, j + 1))
        ELSE NoParse
  IN
  IF n = 0 \/ (hasRole /\ role \notin {"P", "N", "B", "R", "Q", "K"}) \/ i1 > n
    THEN NoParse
  ELSE IF hasFile /\ i2 > n THEN NoParse
  ELSE IF i3 > n
    THEN (IF hasFile /\ hasRank THEN San("", "", FALSE, file \o rank, "") ELSE NoParse)
  ELSE IF Ch(s, i3) = "x"
    THEN (IF Ch(s, i3 + 1) \in Files /\ Ch(s, i3 + 2) \in Ranks
            THEN Promo(i3 + 3, file, rank, TRUE, Ch(s, i3 + 1) \o Ch(s, i3 + 2))
            ELSE NoParse)
  ELSE IF Ch(s, i3) = "="
    THEN (IF hasFile /\ hasRank THEN Promo(i3, "", "", FALSE, file \o rank) ELSE NoParse)
  ELSE IF Ch(s, i3) \in Files /\ Ch(s, i3 + 1) \in Ranks
    THEN Promo(i3 + 2, file, rank, FALSE, Ch(s, i3) \o Ch(s, i3 + 1))
  ELSE NoParse

\* SanPlus's Display (san.to_string()): the parsed move written back out,
\* disambiguators and suffix as they were given.
SanToString(san) ==
  (IF san.role = "P" THEN "" ELSE san.role) \o san.file \o san.rank
    \o (IF san.capture THEN "x" ELSE "") \o san.to
    \o (IF san.promo # "" THEN "=" \o san.promo ELSE "") \o san.suffix

\* San::to_move: the legal moves that match; exactly one is a move, none or
\* several an error.
SanCandidates(san, pos) ==
  {m \in LegalMoves(pos) :
     /\ m.role = san.role
     /\ m.to = san.to
     /\ (san.file = "" \/ san.file = Ch(m.from, 1))
     /\ (san.rank = "" \/ san.rank = Ch(m.from, 2))
     /\ m.promo = san.promo}

SanToMove(san, pos) ==
  IF Cardinality(SanCandidates(san, pos)) = 1
    THEN [ok |-> TRUE, mv |-> CHOOSE m \in SanCandidates(san, pos) : TRUE]
    ELSE NoParse

\* SanPlus::from_move: the algebraic notation of a move of the position.  No
\* two moves of the fragment need a disambiguator and none gives check.
SanFromMove(pos, m) ==
  (IF m.role = "P" THEN "" ELSE m.role) \o m.to
    \o (IF m.promo # "" THEN "=" \o m.promo ELSE "")

\* UciMove::from_ascii: from-square, to-square, optional promotion role.
UciFromAscii(tok) ==
  IF /\ Len(tok) \in {4, 5}
     /\ Ch(tok, 1) \in Files /\ Ch(tok, 2) \in Ranks
     /\ Ch(tok, 3) \in Files /\ Ch(tok, 4) \in Ranks
     /\ (Len(tok) = 5 => Ch(tok, 5) \in {"p", "n", "b", "r", "q", "k"})
    THEN [ok |-> TRUE, from |-> SubSeq(tok, 1, 2), to |-> SubSeq(tok, 3, 4),
          promo |-> Ch(tok, 5)]
    ELSE NoParse

\* UciMove's Display (uci.to_string())
UciToString(uci) == uci.from \o uci.to \o uci.promo

\* UciMove::to_move
UciCandidates(uci, pos) ==
  {m \in LegalMoves(pos) :
     m.from = uci.from /\ m.to = uci.to /\ Lower(m.promo) = uci.promo}

UciToMove(uci, pos) ==
  IF UciCandidates(uci, pos) # {}
    THEN [ok |-> TRUE, mv |-> CHOOSE m \in UciCandidates(uci, pos) : TRUE]
    ELSE NoParse

\* UciMove::from_move
UciFromMove(m) == [ok |-> TRUE, from |-> m.from, to |-> m.to, promo |-> Lower(m.promo)]

\* ---------------------------------------------------------------------
\* TlcsRecorder
\* ---------------------------------------------------------------------
ResultMarkers == {"1-0", "0-1", "1/2-1/2", "*"}

\* What a write!(..) followed by flush() on the BufWriter can do: succeed; fail
\* with the text lost; fail with the text kept in the buffer (a failed flush).
IoOutcomes == {"ok", "fail_lost", "fail_kept"}

WriteText(out, text, io) == IF io = "fail_lost" THEN out ELSE out \o text

\* The recorder's fields as one value.
Recorder == [position |-> position, moves |-> moves, result |-> result, output |-> output]

\* What a call gives back: the recorder after it, Ok or Err, whether a move
\* was played, the text it handed to the writer and how that write went
\* ("none": the call wrote nothing).
Outcome(r, rv, played, text, io) ==
  [rec |-> r, ret |-> rv, played |-> played, text |-> text, io |-> io]

\* The lines the server sends in the model.
Lines ==
  { "1. e4 e5 2. Nf3 1-0", "1.e4", "e7e5", "e2e4 e5", "g1f3", "Nf3 Nc6",
    "e5 zz Nc6", "a7a8q", "a8=Q", "0-1", "1/2-1/2 *", "12. ..." }

\* The tokens of those lines, each parsed once.
LineTokens == [l \in Lines |-> TokensFromLine(l)]

Tokens == UNION {{LineTokens[l][i] : i \in 1..Len(LineTokens[l])} : l \in Lines}

SanOf == [t \in Tokens |-> SanFromAscii(t)]

UciOf == [t \in Tokens |-> UciFromAscii(t)]

\* A finish that overwrites an earlier result.
FinishOverwrite(r, outcome, io) ==
  Outcome([r EXCEPT !.result = outcome, !.output = WriteText(@, outcome \o "\n", io)],
          IF io = "ok" THEN "ok" ELSE "err", FALSE,
          IF io = "fail_lost" THEN "" ELSE outcome \o "\n", io)

\* TlcsRecorder::finish
Finish(r, outcome, io) ==
  IF r.result # None THEN Outcome(r, "ok", FALSE, "", "none")
  ELSE Outcome([r EXCEPT !.result = outcome, !.output = WriteText(@, outcome \o "\n", io)],
               IF io = "ok" THEN "ok" ELSE "err", FALSE,
               IF io = "fail_lost" THEN "" ELSE outcome \o "\n", io)

\* The text write_san formats for the move at ply Len(moves).
SanText(ply, san) ==
  IF ply % 2 = 0 THEN ToString((ply \div 2) + 1) \o ". " \o san \o " " ELSE san \o " "

\* A recorder that pushes the move before it knows the write succeeded.
WriteSanPushFirst(r, san, mv, uci, io) ==
  IF io = "ok"
    THEN Outcome([r EXCEPT !.output = WriteText(@, SanText(Len(r.moves), san), io),
                           !.position = Play(@, mv),
                           !.moves = Append(@, uci)],
                 "ok", TRUE, SanText(Len(r.moves), san), io)
    ELSE Outcome([r EXCEPT !.output = WriteText(@, SanText(Len(r.moves), san), io),
                           !.moves = Append(@, uci)],
                 "err", FALSE,
                 IF io = "fail_lost" THEN "" ELSE SanText(Len(r.moves), san), io)

\* A recorder that takes no move once its result is set.
WriteSanUnlessResult(r, san, mv, uci, io) ==
  IF r.result # None THEN Outcome(r, "ok", FALSE, "", "none")
  ELSE IF io = "ok"
    THEN Outcome([r EXCEPT !.output = WriteText(@, SanText(Len(r.moves), san), io),
                           !.position = Play(@, mv),
                           !.moves = Append(@, uci)],
                 "ok", TRUE, SanText(Len(r.moves), san), io)
    ELSE Outcome([r EXCEPT !.output = WriteText(@, SanText(Len(r.moves), san), io)],
                 "err", FALSE,
                 IF io = "fail_lost" THEN "" ELSE SanText(Len(r.moves), san), io)

\* TlcsRecorder::write_san followed by play_unchecked and moves.push: the
\* write comes first, and its error leaves position and moves as they were.
WriteSanAndPlay(r, san, mv, uci, io) ==
  IF io = "ok"
    THEN Outcome([r EXCEPT !.output = WriteText(@, SanText(Len(r.moves), san), io),
                           !.position = Play(@, mv),
                           !.moves = Append(@, uci)],
                 "ok", TRUE, SanText(Len(r.moves), san), io)
    ELSE Outcome([r EXCEPT !.output = WriteText(@, SanText(Len(r.moves), san), io)],
                 "err", FALSE,
                 IF io = "fail_lost" THEN "" ELSE SanText(Len(r.moves), san), io)

\* TlcsRecorder::append_token
AppendToken(r, token, io) ==
  LET san == SanOf[token]
      uci == UciOf[token]
  IN
  IF token = "" THEN Outcome(r, "ok", FALSE, "", "none")
  ELSE IF token \in ResultMarkers THEN Finish(r, token, io)
  ELSE IF san.ok
    THEN (LET m == SanToMove(san, r.position) IN
          IF ~m.ok THEN Outcome(r, "err", FALSE, "", "none")
          ELSE WriteSanAndPlay(r, SanToString(san), m.mv,
                               UciToString(UciFromMove(m.mv)), io))
  ELSE IF uci.ok
    THEN (LET m == UciToMove(uci, r.position) IN
          IF ~m.ok THEN Outcome(r, "err", FALSE, "", "none")
          ELSE WriteSanAndPlay(r, SanFromMove(r.position, m.mv), m.mv,
                               UciToString(uci), io))
  ELSE Outcome(r, "ok", FALSE, "", "none")

\* The move a token names in a position under either notation, if it is legal.
TokenMove(token, pos) ==
  LET san == SanOf[token]
      uci == UciOf[token]
  IN
  IF san.ok /\ SanToMove(san, pos).ok THEN SanToMove(san, pos)
  ELSE IF uci.ok /\ UciToMove(uci, pos).ok THEN UciToMove(uci, pos)
  ELSE NoParse

\* How a token stands to the recorder when append_token examines it.
TokenClass(token, pos) ==
  IF token \in ResultMarkers THEN "result"
  ELSE IF TokenMove(token, pos).ok THEN "legal"
  ELSE "not_move"

NoCall == [tok |-> "", class |-> "none", ret |-> "ok", played |-> FALSE,
           text |-> "", san |-> "", ply |-> 0, hadResult |-> FALSE, io |-> "none"]

InitRecorder ==
  /\ startPos \in StartPositions
  /\ position = startPos
  /\ moves = <<>>
  /\ result = None
  /\ output = ""
  /\ pending = <<>>
  /\ ret = "ok"
  /\ last = NoCall
  /\ applied = 0
  /\ lines = 0

\* append_moves_from_line is entered with a line read from the socket.
FeedLine(line) ==
  /\ ret # "busy"
  /\ lines < MaxLines
  /\ pending' = LineTokens[line]
  /\ ret' = "busy"
  /\ lines' = lines + 1
  /\ UNCHANGED <<startPos, position, moves, result, output, last, applied>>
  /\ UNCHANGED notRecVars

\* One iteration of the loop of append_moves_from_line: append_token(token)?
TokenStep(io) ==
  /\ ret = "busy"
  /\ pending # <<>>
  /\ LET tok == Head(pending)
         o == AppendToken(Recorder, tok, io)
         tm == TokenMove(tok, position)
     IN
     /\ position' = o.rec.position
     /\ moves' = o.rec.moves
     /\ result' = o.rec.result
     /\ output' = o.rec.output
     /\ applied' = IF o.played THEN applied + 1 ELSE applied
     /\ last' = [tok |-> tok, class |-> TokenClass(tok, position), ret |-> o.ret,
                 played |-> o.played, text |-> o.text,
                 san |-> IF tm.ok THEN SanFromMove(position, tm.mv) ELSE "",
                 ply |-> Len(moves), hadResult |-> result # None,
                 io |-> o.io]
     /\ IF o.ret = "err"
          THEN pending' = <<>> /\ ret' = "err"
          ELSE pending' = Tail(pending) /\ ret' = ret
  /\ UNCHANGED <<startPos, lines>>
  /\ UNCHANGED notRecVars

\* append_moves_from_line returns Ok(()) after the last token.
LineDone ==
  /\ ret = "busy"
  /\ pending = <<>>
  /\ ret' = "ok"
  /\ UNCHANGED <<startPos, position, moves, result, output, pending, last, applied, lines>>
  /\ UNCHANGED notRecVars

NextRecorder ==
  \/ \E line \in Lines : FeedLine(line)
  \/ \E io \in IoOutcomes : TokenStep(io)
  \/ LineDone

\* ---------------------------------------------------------------------
\* The control-channel TlcsManager (tlcs.rs) and run_connection
\* ---------------------------------------------------------------------
Callers == {"c1", "c2"}
Tasks == 1..MaxTasks

\* TlcsConnectArgs, as far as run_connection reads it: auto_reconnect, and
\* whether username is non-empty.
ConnectArgs == [auto : BOOLEAN, user : BOOLEAN]

UserActions == {"AcceptOffer", "OfferDraw", "Resign", "DeclineDraw", "RequestReconnect"}

\* TlcsManager::send_action: the control message of a user action.
\* (id numbers the Send commands in the order send_action queues them; it is
\* 0 for the other messages.)
ControlOf(action) ==
  CASE action = "AcceptOffer" -> [kind |-> "Send", cmd |-> "ACCEPT", id |-> 0]
    [] action = "OfferDraw" -> [kind |-> "Send", cmd |-> "DRAW", id |-> 0]
    [] action = "Resign" -> [kind |-> "Send", cmd |-> "RESIGN", id |-> 0]
    [] action = "DeclineDraw" -> [kind |-> "Send", cmd |-> "DECLINE", id |-> 0]
    [] action = "RequestReconnect" -> [kind |-> "Reconnect", cmd |-> "", id |-> 0]

DisconnectMsg == [kind |-> "Disconnect", cmd |-> "", id |-> 0]

\* The credentials of a connection that has a username.
Username == "alice"
Password == "secret"

\* handle_stream, lines 625-626: the login frame.
LoginFrame == [text |-> "USER " \o Username \o " " \o Password \o "\r\n", id |-> 0]

\* handle_stream, line 654: the frame of a Send command.
CommandFrame(msg) == [text |-> msg.cmd \o "\r\n", id |-> msg.id]

\* Lines on a socket are told apart by a tag that cycles; no two unread lines
\* carry the same one.
NumTags == MaxInbox + 1
NextTag(tag) == (tag % NumTags) + 1

\* Option::None for a handle and for the stored options.
NoTask == 0
NoArgs == [set |-> FALSE]

Alive(t) == tpc[t] \notin {"unborn", "done"}

InitSupervisor ==
  /\ handle = NoTask
  /\ lastOptions = NoArgs
  /\ cpc = [c \in Callers |-> "idle"]
  /\ cargs = [c \in Callers |-> NoArgs]
  /\ cheld = [c \in Callers |-> NoTask]
  /\ cret = "ok"
  /\ cop = [c \in Callers |-> None]
  /\ tpc = [t \in Tasks |-> "unborn"]
  /\ topts = [t \in Tasks |-> NoArgs]
  /\ chan = [t \in Tasks |-> <<>>]
  /\ txOpen = [t \in Tasks |-> FALSE]
  /\ tstatus = [t \in Tasks |-> None]
  /\ gameOn = [t \in Tasks |-> FALSE]
  /\ why = [t \in Tasks |-> None]
  /\ submitted = 0
  /\ sent = [t \in Tasks |-> <<>>]
  /\ writtenIds = <<>>
  /\ inbox = [t \in Tasks |-> <<>>]
  /\ lastArrived = [t \in Tasks |-> 0]
  /\ lastEvent = [t \in Tasks |-> 0]

callerVars == <<cpc, cargs, cheld, cret, cop>>
taskVars == <<tpc, topts, chan, txOpen, tstatus, gameOn, why>>

\* mpsc::UnboundedSender::send: queued unless the receiver is gone (the task
\* has returned).
SendTo(t, msg) == IF tpc[t] = "done" THEN chan ELSE [chan EXCEPT ![t] = Append(@, msg)]

\* TlcsManager::connect, first block: last_options = Some(options).
ConnectStart(c, args) ==
  /\ cpc[c] = "idle"
  /\ lastOptions' = args
  /\ cargs' = [cargs EXCEPT ![c] = args]
  /\ cpc' = [cpc EXCEPT ![c] = "take"]
  /\ cop' = [cop EXCEPT ![c] = "connect"]
  /\ UNCHANGED <<handle, cheld, cret, taskVars>>
  /\ UNCHANGED sockVars
  /\ UNCHANGED notSupVars

\* TlcsManager::reconnect: the stored options, or Err("No previous connection");
\* then connect(options), whose first block stores them again.
Reconnect(c) ==
  /\ cpc[c] = "idle"
  /\ IF lastOptions = NoArgs
       THEN /\ cret' = "No previous connection"
            /\ UNCHANGED <<cpc, cargs, cop>>
       ELSE /\ cargs' = [cargs EXCEPT ![c] = lastOptions]
            /\ cpc' = [cpc EXCEPT ![c] = "take"]
            /\ cop' = [cop EXCEPT ![c] = "reconnect"]
            /\ cret' = cret
  /\ UNCHANGED <<handle, lastOptions, cheld, taskVars>>
  /\ UNCHANGED sockVars
  /\ UNCHANGED notSupVars

\* replace_running(None) of connect, and the first half of
\* TlcsConnectionHandle::shutdown on the handle it returned: send Disconnect.
ConnectTake(c) ==
  /\ cpc[c] = "take"
  /\ handle' = NoTask
  /\ cheld' = [cheld EXCEPT ![c] = handle]
  /\ IF handle = NoTask
       THEN cpc' = [cpc EXCEPT ![c] = "spawn"] /\ chan' = chan
       ELSE cpc' = [cpc EXCEPT ![c] = "join"] /\ chan' = SendTo(handle, DisconnectMsg)
  /\ UNCHANGED <<lastOptions, cargs, cret, cop, tpc, topts, txOpen, tstatus, gameOn, why>>
  /\ UNCHANGED sockVars
  /\ UNCHANGED notSupVars

\* The join of shutdown is over once the task has returned.
JoinDone(t) == tpc[t] = "done"

\* Second half of shutdown inside connect: self.join.await, then the handle
\* (and with it the sender) is dropped.
ConnectJoin(c) ==
  /\ cpc[c] = "join"
  /\ JoinDone(cheld[c])
  /\ txOpen' = [txOpen EXCEPT ![cheld[c]] = FALSE]
  /\ cheld' = [cheld EXCEPT ![c] = NoTask]
  /\ cpc' = [cpc EXCEPT ![c] = "spawn"]
  /\ UNCHANGED <<handle, lastOptions, cargs, cret, cop, tpc, topts, chan, tstatus, gameOn,
                 why>>
  /\ UNCHANGED sockVars
  /\ UNCHANGED notSupVars

\* mpsc::unbounded_channel() and tokio::spawn(run_connection(options, app, rx)).
ConnectSpawn(c) ==
  /\ cpc[c] = "spawn"
  /\ \E t \in Tasks :
       /\ tpc[t] = "unborn"
       /\ \A u \in Tasks : tpc[u] = "unborn" => t <= u
       /\ tpc' = [tpc EXCEPT ![t] = "dial"]
       /\ topts' = [topts EXCEPT ![t] = cargs[c]]
       /\ txOpen' = [txOpen EXCEPT ![t] = TRUE]
       /\ tstatus' = [tstatus EXCEPT ![t] = "Connecting"]
       /\ cheld' = [cheld EXCEPT ![c] = t]
  /\ cpc' = [cpc EXCEPT ![c] = "install"]
  /\ UNCHANGED <<handle, lastOptions, cargs, cret, cop, chan, gameOn, why>>
  /\ UNCHANGED sockVars
  /\ UNCHANGED notSupVars

\* replace_running(Some(handle)) at the end of connect.  The handle it
\* returns is dropped on the spot: its sender closes the channel and its
\* JoinHandle detaches the task.
ConnectInstall(c) ==
  /\ cpc[c] = "install"
  /\ handle' = cheld[c]
  /\ txOpen' = IF handle = NoTask THEN txOpen ELSE [txOpen EXCEPT ![handle] = FALSE]
  /\ cheld' = [cheld EXCEPT ![c] = NoTask]
  /\ cargs' = [cargs EXCEPT ![c] = NoArgs]
  /\ cpc' = [cpc EXCEPT ![c] = "idle"]
  /\ cop' = [cop EXCEPT ![c] = None]
  /\ cret' = "ok"
  /\ UNCHANGED <<lastOptions, tpc, topts, chan, tstatus, gameOn, why>>
  /\ UNCHANGED sockVars
  /\ UNCHANGED notSupVars

\* TlcsManager::disconnect: replace_running(None), and the first half of
\* shutdown on the handle it returned.
DisconnectTake(c) ==
  /\ cpc[c] = "idle"
  /\ handle' = NoTask
  /\ IF handle = NoTask
       THEN /\ cret' = "ok"
            /\ UNCHANGED <<cpc, cheld, chan, cop>>
       ELSE /\ cheld' = [cheld EXCEPT ![c] = handle]
            /\ cpc' = [cpc EXCEPT ![c] = "djoin"]
            /\ cop' = [cop EXCEPT ![c] = "disconnect"]
            /\ chan' = SendTo(handle, DisconnectMsg)
            /\ cret' = cret
  /\ UNCHANGED <<lastOptions, cargs, tpc, topts, txOpen, tstatus, gameOn, why>>
  /\ UNCHANGED sockVars
  /\ UNCHANGED notSupVars

\* Second half of shutdown inside disconnect.
DisconnectJoin(c) ==
  /\ cpc[c] = "djoin"
  /\ JoinDone(cheld[c])
  /\ txOpen' = [txOpen EXCEPT ![cheld[c]] = FALSE]
  /\ cheld' = [cheld EXCEPT ![c] = NoTask]
  /\ cpc' = [cpc EXCEPT ![c] = "idle"]
  /\ cop' = [cop EXCEPT ![c] = None]
  /\ cret' = "ok"
  /\ UNCHANGED <<handle, lastOptions, cargs, tpc, topts, chan, tstatus, gameOn, why>>
  /\ UNCHANGED sockVars
  /\ UNCHANGED notSupVars

\* TlcsManager::send_action, under the handle lock: Err("Not connected")
\* without a handle; otherwise the message is sent on the handle's channel,
\* and the only error is that of a channel whose receiver is gone.
SendAction(c, action) ==
  /\ cpc[c] = "idle"
  /\ IF handle = NoTask
       THEN cret' = "Not connected" /\ UNCHANGED <<chan, submitted>>
       ELSE IF tpc[handle] = "done"
         THEN cret' = "channel closed" /\ UNCHANGED <<chan, submitted>>
       ELSE /\ Len(chan[handle]) < MaxQueue
            /\ cret' = "ok"
            /\ IF ControlOf(action).kind = "Send"
                 THEN /\ submitted < MaxCmds
                      /\ submitted' = submitted + 1
                      /\ chan' = SendTo(handle, [ControlOf(action) EXCEPT !.id = submitted + 1])
                 ELSE /\ submitted' = submitted
                      /\ chan' = SendTo(handle, ControlOf(action))
  /\ UNCHANGED <<handle, lastOptions, cpc, cargs, cheld, cop, tpc, topts, txOpen, tstatus,
                 gameOn, why>>
  /\ UNCHANGED <<sent, writtenIds, inbox, lastArrived, lastEvent>>
  /\ UNCHANGED notSupVars

\* ---- run_connection ----

\* run_connection leaves: the receiver is dropped with what it still holds.
TaskEnd(t) ==
  /\ tpc' = [tpc EXCEPT ![t] = "done"]
  /\ chan' = [chan EXCEPT ![t] = <<>>]
  /\ topts' = [topts EXCEPT ![t] = NoArgs]
  /\ gameOn' = [gameOn EXCEPT ![t] = FALSE]

\* handle_stream returns: the reader is dropped with the lines it did not
\* read.
CloseSocket(t) ==
  /\ inbox' = [inbox EXCEPT ![t] = <<>>]
  /\ lastArrived' = [lastArrived EXCEPT ![t] = 0]
  /\ lastEvent' = [lastEvent EXCEPT ![t] = 0]

\* handle_stream, line 624: the login frame comes first if there is a
\* username.
FirstStepNoLogin(opts) == "session"

FirstStep(opts) == IF opts.user THEN "login" ELSE "session"

\* TcpStream::connect succeeds: Connected is emitted and handle_stream starts
\* on the new socket with a default game state.
DialOk(t) ==
  /\ tpc[t] = "dial"
  /\ tpc' = [tpc EXCEPT ![t] = FirstStep(topts[t])]
  /\ tstatus' = [tstatus EXCEPT ![t] = "Connected"]
  /\ gameOn' = [gameOn EXCEPT ![t] = FALSE]
  /\ sent' = [sent EXCEPT ![t] = <<>>]
  /\ UNCHANGED <<handle, lastOptions, callerVars, topts, chan, txOpen, why>>
  /\ UNCHANGED <<submitted, writtenIds, inbox, lastArrived, lastEvent>>
  /\ UNCHANGED notSupVars

\* TcpStream::connect fails: Error is emitted.
DialErr(t) ==
  /\ tpc[t] = "dial"
  /\ tpc' = [tpc EXCEPT ![t] = "check"]
  /\ tstatus' = [tstatus EXCEPT ![t] = "Error"]
  /\ why' = [why EXCEPT ![t] = "dial"]
  /\ UNCHANGED <<handle, lastOptions, callerVars, topts, chan, txOpen, gameOn>>
  /\ UNCHANGED sockVars
  /\ UNCHANGED notSupVars

\* handle_stream: the login frame is written, or its write fails (Error is
\* emitted, handle_stream returns false and run_connection emits Error again).
Login(t, ok) ==
  /\ tpc[t] = "login"
  /\ IF ok
       THEN /\ tpc' = [tpc EXCEPT ![t] = "session"]
            /\ sent' = [sent EXCEPT ![t] = Append(@, LoginFrame)]
            /\ UNCHANGED <<tstatus, why, inbox, lastArrived, lastEvent>>
       ELSE /\ tpc' = [tpc EXCEPT ![t] = "check"]
            /\ tstatus' = [tstatus EXCEPT ![t] = "Error"]
            /\ why' = [why EXCEPT ![t] = "error"]
            /\ sent' = sent
            /\ CloseSocket(t)
  /\ UNCHANGED <<handle, lastOptions, callerVars, topts, chan, txOpen, gameOn>>
  /\ UNCHANGED <<submitted, writtenIds>>
  /\ UNCHANGED notSupVars

\* A line of the server arrives on the socket of a connection.
LineArrive(t) ==
  /\ tpc[t] \in {"login", "session"}
  /\ Len(inbox[t]) < MaxInbox
  /\ inbox' = [inbox EXCEPT ![t] = Append(@, NextTag(lastArrived[t]))]
  /\ lastArrived' = [lastArrived EXCEPT ![t] = NextTag(@)]
  /\ UNCHANGED <<handle, lastOptions, callerVars, taskVars>>
  /\ UNCHANGED <<submitted, sent, writtenIds, lastEvent>>
  /\ UNCHANGED notSupVars

\* BufReader::lines, next_line: the oldest unread line.
NextLineNewest(q) == [line |-> q[Len(q)], rest |-> SubSeq(q, 1, Len(q) - 1)]

NextLine(q) == [line |-> Head(q), rest |-> Tail(q)]

\* handle_stream, line branch of the select: Ok(Some(line)).  Whatever the
\* line, update_state_from_line sets can_offer_draw and can_resign; the game
\* event of the line is emitted.
LineIn(t) ==
  /\ tpc[t] = "session"
  /\ inbox[t] # <<>>
  /\ inbox' = [inbox EXCEPT ![t] = NextLine(@).rest]
  /\ lastEvent' = [lastEvent EXCEPT ![t] = NextLine(inbox[t]).line]
  /\ gameOn' = [gameOn EXCEPT ![t] = TRUE]
  /\ UNCHANGED <<handle, lastOptions, callerVars, tpc, topts, chan, txOpen, tstatus,
                 why>>
  /\ UNCHANGED <<submitted, sent, writtenIds, lastArrived>>
  /\ UNCHANGED notSupVars

\* handle_stream, line branch: Ok(None) (remote EOF) or Err: handle_stream
\* returns false and run_connection emits Error("Connection closed").
ReadEnd(t) ==
  /\ tpc[t] = "session"
  /\ tpc' = [tpc EXCEPT ![t] = "check"]
  /\ tstatus' = [tstatus EXCEPT ![t] = "Error"]
  /\ why' = [why EXCEPT ![t] = "error"]
  /\ gameOn' = [gameOn EXCEPT ![t] = FALSE]
  /\ CloseSocket(t)
  /\ UNCHANGED <<handle, lastOptions, callerVars, topts, chan, txOpen>>
  /\ UNCHANGED <<submitted, sent, writtenIds>>
  /\ UNCHANGED notSupVars

\* mpsc::UnboundedReceiver::recv: the oldest queued message.
RecvNewest(q) == [msg |-> q[Len(q)], rest |-> SubSeq(q, 1, Len(q) - 1)]

Recv(q) == [msg |-> Head(q), rest |-> Tail(q)]

\* The select of handle_stream polls both branches: the control branch is
\* ready as soon as a message is queued, whatever the line branch holds.
ControlReadyAfterLines(t) == chan[t] # <<>> /\ inbox[t] = <<>>

ControlReady(t) == chan[t] # <<>>

\* handle_stream, control branch of the select.  ok is whether the write of a
\* Send succeeds.  A failed write, Disconnect and Reconnect end handle_stream
\* (Disconnect with true, the others with false, after which run_connection
\* emits Error); all go on at line 596 of run_connection.
Control(t, ok) ==
  /\ tpc[t] = "session"
  /\ ControlReady(t)
  /\ chan' = [chan EXCEPT ![t] = Recv(@).rest]
  /\ LET msg == Recv(chan[t]).msg IN
     CASE msg.kind = "Send" ->
            IF ok
              THEN /\ sent' = [sent EXCEPT ![t] = Append(@, CommandFrame(msg))]
                   /\ writtenIds' = Append(writtenIds, msg.id)
                   /\ UNCHANGED <<tpc, tstatus, why>>
              ELSE /\ tpc' = [tpc EXCEPT ![t] = "check"]
                   /\ tstatus' = [tstatus EXCEPT ![t] = "Error"]
                   /\ why' = [why EXCEPT ![t] = "error"]
                   /\ UNCHANGED <<sent, writtenIds>>
       [] msg.kind = "Disconnect" ->
            /\ tpc' = [tpc EXCEPT ![t] = "check"]
            /\ tstatus' = [tstatus EXCEPT ![t] = "Disconnected"]
            /\ why' = [why EXCEPT ![t] = "disconnect"]
            /\ UNCHANGED <<sent, writtenIds>>
       [] msg.kind = "Reconnect" ->
            /\ tpc' = [tpc EXCEPT ![t] = "check"]
            /\ tstatus' = [tstatus EXCEPT ![t] = "Error"]
            /\ why' = [why EXCEPT ![t] = "reconnect"]
            /\ UNCHANGED <<sent, writtenIds>>
  /\ gameOn' = [gameOn EXCEPT ![t] = IF tpc'[t] = "session" THEN @ ELSE FALSE]
  /\ IF tpc'[t] = "session"
       THEN UNCHANGED <<inbox, lastArrived, lastEvent>>
       ELSE CloseSocket(t)
  /\ UNCHANGED <<handle, lastOptions, callerVars, topts, txOpen, submitted>>
  /\ UNCHANGED notSupVars

\* handle_stream, control branch: recv() gives None once the sender is gone
\* and the queue is empty; handle_stream returns false.
ControlClosed(t) ==
  /\ tpc[t] = "session"
  /\ chan[t] = <<>>
  /\ ~txOpen[t]
  /\ tpc' = [tpc EXCEPT ![t] = "check"]
  /\ tstatus' = [tstatus EXCEPT ![t] = "Error"]
  /\ why' = [why EXCEPT ![t] = "error"]
  /\ gameOn' = [gameOn EXCEPT ![t] = FALSE]
  /\ CloseSocket(t)
  /\ UNCHANGED <<handle, lastOptions, callerVars, topts, chan, txOpen>>
  /\ UNCHANGED <<submitted, sent, writtenIds>>
  /\ UNCHANGED notSupVars

\* run_connection, lines 596-609: without auto_reconnect Disconnected is
\* emitted and the task returns; with it Connecting is emitted and the task
\* sleeps.  (The record of the frames of the session is cleared here.)
AfterSession(t) ==
  /\ tpc[t] = "check"
  /\ why' = [why EXCEPT ![t] = None]
  /\ sent' = [sent EXCEPT ![t] = <<>>]
  /\ IF ~topts[t].auto
       THEN /\ TaskEnd(t)
            /\ tstatus' = [tstatus EXCEPT ![t] = "Disconnected"]
       ELSE /\ tpc' = [tpc EXCEPT ![t] = "sleep"]
            /\ tstatus' = [tstatus EXCEPT ![t] = "Connecting"]
            /\ UNCHANGED <<chan, topts, gameOn>>
  /\ UNCHANGED <<handle, lastOptions, callerVars, txOpen>>
  /\ UNCHANGED <<submitted, writtenIds, inbox, lastArrived, lastEvent>>
  /\ UNCHANGED notSupVars

\* The sleep is over: the loop starts again, emits Connecting and dials.
Wake(t) ==
  /\ tpc[t] = "sleep"
  /\ tpc' = [tpc EXCEPT ![t] = "dial"]
  /\ tstatus' = [tstatus EXCEPT ![t] = "Connecting"]
  /\ UNCHANGED <<handle, lastOptions, callerVars, topts, chan, txOpen, gameOn, why>>
  /\ UNCHANGED sockVars
  /\ UNCHANGED notSupVars

\* The steps of a run_connection task other than the login frame, the
\* inbound lines and the closed control channel.
SessionStep(t) ==
  \/ DialOk(t)
  \/ DialErr(t)
  \/ ReadEnd(t)
  \/ \E ok \in BOOLEAN : Control(t, ok)
  \/ AfterSession(t)
  \/ Wake(t)

\* connect, disconnect and reconnect as one caller runs them.
CallerStep(c, Args) ==
  \/ \E args \in Args : ConnectStart(c, args)
  \/ Reconnect(c)
  \/ ConnectTake(c)
  \/ ConnectJoin(c)
  \/ ConnectSpawn(c)
  \/ ConnectInstall(c)
  \/ DisconnectTake(c)
  \/ DisconnectJoin(c)

\* One caller at a time (the host issues its commands one after the other),
\* with a server that sends nothing.  (The sender of a running task is never
\* dropped here, so recv() never gives None.)
NextSupervisor ==
  \/ CallerStep("c1", ConnectArgs)
  \/ \E action \in UserActions : SendAction("c1", action)
  \/ \E t \in Tasks : SessionStep(t)
  \/ \E t \in Tasks, ok \in BOOLEAN : Login(t, ok)

\* The first connect() on a manager.
FirstConnect(c, args) ==
  /\ handle = NoTask
  /\ lastOptions = NoArgs
  /\ ConnectStart(c, args)

\* One connection and its sessions: a single connect(), then the user's
\* actions, the server's lines and the steps of the task.
NextSession ==
  \/ \E args \in ConnectArgs : FirstConnect("c1", args)
  \/ ConnectTake("c1")
  \/ ConnectSpawn("c1")
  \/ ConnectInstall("c1")
  \/ \E action \in UserActions : SendAction("c1", action)
  \/ \E t \in Tasks : SessionStep(t)
  \/ \E t \in Tasks, ok \in BOOLEAN : Login(t, ok)
  \/ \E t \in Tasks : LineArrive(t)
  \/ \E t \in Tasks : LineIn(t)

\* A session that stays connected: the dial and every write succeed, the
\* server does not close, and the user sends commands only.
SendActions == UserActions \ {"RequestReconnect"}

NextConnected ==
  \/ \E args \in ConnectArgs : FirstConnect("c1", args)
  \/ ConnectTake("c1")
  \/ ConnectSpawn("c1")
  \/ ConnectInstall("c1")
  \/ \E action \in SendActions : SendAction("c1", action)
  \/ \E t \in Tasks : DialOk(t)
  \/ \E t \in Tasks : Login(t, TRUE)
  \/ \E t \in Tasks : LineArrive(t)
  \/ \E t \in Tasks : LineIn(t)
  \/ \E t \in Tasks : Control(t, TRUE)

\* Concurrent callers of connect, disconnect and reconnect, connecting
\* without a username to a server that sends nothing.
AnonymousArgs == [auto : BOOLEAN, user : {FALSE}]

NextConcurrent ==
  \/ \E c \in Callers : CallerStep(c, AnonymousArgs)
  \/ \E t \in Tasks : SessionStep(t)
  \/ \E t \in Tasks : ControlClosed(t)

\* The calls of one caller and the tasks they start, without user actions.
NextCalls ==
  \/ CallerStep("c1", AnonymousArgs)
  \/ \E t \in Tasks : SessionStep(t)

\* What a call does after its first step: the awaits of connect and of
\* disconnect.
CallBody(c) ==
  \/ ConnectTake(c)
  \/ ConnectJoin(c)
  \/ ConnectSpawn(c)
  \/ ConnectInstall(c)
  \/ DisconnectJoin(c)

\* ---------------------------------------------------------------------
\* The subscription TlcsManager (tlcs_client.rs) and its run_connection
\* ---------------------------------------------------------------------
MIN_BACKOFF_SECS == 1
MAX_BACKOFF_SECS == 30

Conns == 1..MaxConns
Games == {"g1", "g2"}

Min(a, b) == IF a < b THEN a ELSE b

\* A frame on the wire, and who wrote it: the replay of resend_subscriptions,
\* a subscribe_game call that began after the connection was installed
\* ("call") or before ("early"), or the keep-alive ticker.
Frame(kind, game, by) == [kind |-> kind, game |-> game, by |-> by]

Running(t) == kpc[t] \notin {"unborn", "done"}

InitClient ==
  /\ writer = NoTask
  /\ subscriptions = {}
  /\ connectionTask = NoTask
  /\ keepAliveTask = FALSE
  /\ shutdownTx = NoTask
  /\ reconnect = FALSE
  /\ mpc = "idle"
  /\ mheld = NoTask
  /\ mgame = None
  /\ mafter = FALSE
  /\ mbefore = {}
  /\ mrec = FALSE
  /\ mret = "ok"
  /\ kpc = [t \in Conns |-> "unborn"]
  /\ krec = [t \in Conns |-> FALSE]
  /\ stop = [t \in Conns |-> FALSE]
  /\ backoff = [t \in Conns |-> MIN_BACKOFF_SECS]
  /\ fails = [t \in Conns |-> 0]
  /\ subs = [t \in Conns |-> {}]
  /\ wire = <<>>
  /\ subsAtInstall = {}

connVars == <<kpc, krec, stop, backoff, fails, subs>>
slotVars == <<writer, wire, subsAtInstall>>

\* writer.lock().await.take(): the write half in the slot, if any, is dropped.
TakeWriter ==
  /\ writer' = NoTask
  /\ wire' = <<>>
  /\ subsAtInstall' = {}

\* (A shutdown that takes the sender and the handles but sends nothing.)
ShutdownSignalLost ==
  /\ stop' = stop
  /\ shutdownTx' = NoTask
  /\ keepAliveTask' = FALSE
  /\ mheld' = connectionTask
  /\ connectionTask' = NoTask

\* TlcsManager::shutdown, lines 135-143: send true on the watch channel and
\* drop its sender, abort the keep-alive ticker, take the connection handle.
ShutdownSignal ==
  /\ stop' = IF shutdownTx = NoTask THEN stop ELSE [stop EXCEPT ![shutdownTx] = TRUE]
  /\ shutdownTx' = NoTask
  /\ keepAliveTask' = FALSE
  /\ mheld' = connectionTask
  /\ connectionTask' = NoTask

\* handle.await returns once the task has returned.
JoinSkipped(t) == TRUE

TaskFinished(t) == kpc[t] = "done"

\* TlcsManager::shutdown, lines 143-145: nothing to await, or the join is over.
ShutdownJoined == IF mheld = NoTask THEN TRUE ELSE TaskFinished(mheld)

\* TlcsManager::connect up to the join inside shutdown.
ClientConnect(rec) ==
  /\ mpc = "idle"
  /\ \E t \in Conns : kpc[t] = "unborn"
  /\ ShutdownSignal
  /\ mrec' = rec
  /\ mpc' = "connect"
  /\ UNCHANGED <<subscriptions, reconnect, mgame, mafter, mbefore, mret, kpc, krec, backoff,
                 fails, subs, slotVars>>
  /\ UNCHANGED notCliVars

\* TlcsManager::connect from the join on: the rest of shutdown (writer slot
\* emptied), the fields, the spawn of run_connection (which starts with the
\* minimum backoff) and start_keep_alive.
ClientConnectSpawn ==
  /\ mpc = "connect"
  /\ ShutdownJoined
  /\ TakeWriter
  /\ \E t \in Conns :
       /\ kpc[t] = "unborn"
       /\ \A u \in Conns : kpc[u] = "unborn" => t <= u
       /\ kpc' = [kpc EXCEPT ![t] = "dial"]
       /\ krec' = [krec EXCEPT ![t] = mrec]
       /\ stop' = [stop EXCEPT ![t] = FALSE]
       /\ backoff' = [backoff EXCEPT ![t] = MIN_BACKOFF_SECS]
       /\ fails' = [fails EXCEPT ![t] = 0]
       /\ connectionTask' = t
       /\ shutdownTx' = t
  /\ reconnect' = mrec
  /\ keepAliveTask' = TRUE
  /\ mheld' = NoTask
  /\ mrec' = FALSE
  /\ mret' = "ok"
  /\ mpc' = "idle"
  /\ UNCHANGED <<subscriptions, mgame, mafter, mbefore, subs>>
  /\ UNCHANGED notCliVars

\* TlcsManager::disconnect up to the join inside shutdown.
ClientDisconnect ==
  /\ mpc = "idle"
  /\ reconnect' = FALSE
  /\ ShutdownSignal
  /\ mpc' = "disconnect"
  /\ UNCHANGED <<subscriptions, mgame, mafter, mbefore, mrec, mret, kpc, krec, backoff, fails,
                 subs, slotVars>>
  /\ UNCHANGED notCliVars

\* TlcsManager::disconnect from the join on.
ClientDisconnectDone ==
  /\ mpc = "disconnect"
  /\ ShutdownJoined
  /\ TakeWriter
  /\ mheld' = NoTask
  /\ mret' = "ok"
  /\ mpc' = "idle"
  /\ UNCHANGED <<subscriptions, connectionTask, keepAliveTask, shutdownTx, reconnect,
                 mgame, mafter, mbefore, mrec, connVars>>
  /\ UNCHANGED notCliVars

\* TlcsManager::subscribe_game, line 96: the id joins the subscription set.
SubscribeGame(g) ==
  /\ mpc = "idle"
  /\ subscriptions' = subscriptions \cup {g}
  /\ mgame' = g
  /\ mafter' = (writer # NoTask)
  /\ mbefore' = subscriptions
  /\ mpc' = "send"
  /\ UNCHANGED <<connectionTask, keepAliveTask, shutdownTx, reconnect, mheld, mrec, mret,
                 connVars, slotVars>>
  /\ UNCHANGED notCliVars

\* TlcsManager::subscribe_game, lines 97-102: send_frame under the writer
\* lock.  ok is whether write_all and flush succeed.
SendFrame(ok) ==
  /\ mpc = "send"
  /\ IF writer = NoTask
       THEN mret' = "No active TLCS connection" /\ wire' = wire
       ELSE IF ok
         THEN /\ Len(wire) < MaxWire
              /\ wire' = Append(wire, Frame("SUBSCRIBE", mgame,
                                           IF mafter THEN "call" ELSE "early"))
              /\ mret' = "ok"
         ELSE mret' = "io error" /\ wire' = wire
  /\ mgame' = None
  /\ mafter' = FALSE
  /\ mbefore' = {}
  /\ mpc' = "idle"
  /\ UNCHANGED <<writer, subsAtInstall, subscriptions, connectionTask, keepAliveTask,
                 shutdownTx, reconnect, mheld, mrec, connVars>>
  /\ UNCHANGED notCliVars

\* TlcsManager::keep_alive: start_keep_alive aborts the ticker, if any, and
\* spawns one.
KeepAlive ==
  /\ mpc = "idle"
  /\ keepAliveTask' = TRUE
  /\ mret' = "ok"
  /\ UNCHANGED <<subscriptions, connectionTask, shutdownTx, reconnect, mpc, mheld, mgame,
                 mafter, mbefore, mrec, connVars, slotVars>>
  /\ UNCHANGED notCliVars

\* The ticker of start_keep_alive: send_keep_alive writes the payload when
\* the slot holds a writer (an empty slot or a failed write changes nothing).
KeepAliveTick ==
  /\ keepAliveTask
  /\ writer # NoTask
  /\ Len(wire) < MaxWire
  /\ wire' = Append(wire, Frame("PING", "", "ticker"))
  /\ UNCHANGED <<writer, subsAtInstall, subscriptions, connectionTask, keepAliveTask,
                 shutdownTx, reconnect, mpc, mheld, mgame, mafter, mbefore, mrec, mret, connVars>>
  /\ UNCHANGED notCliVars

\* ---- run_connection (tlcs_client.rs) ----

mgrVars == <<connectionTask, keepAliveTask, shutdownTx, reconnect, mpc, mheld, mgame,
             mafter, mbefore, mrec, mret>>

\* backoff = (backoff * 2).min(MAX_BACKOFF_SECS), lines 245 and 305.
NextBackoffUncapped(b) == b * 2

NextBackoff(b) == Min(b * 2, MAX_BACKOFF_SECS)

\* One more failed or dropped attempt since the last successful dial.
OneMoreFail(t) == [fails EXCEPT ![t] = Min(@ + 1, MaxFails)]

\* The dial succeeds: the connected status is emitted and the backoff is
\* back at the minimum.
ConnDialOk(t) ==
  /\ kpc[t] = "dial"
  /\ kpc' = [kpc EXCEPT ![t] = "install"]
  /\ backoff' = [backoff EXCEPT ![t] = MIN_BACKOFF_SECS]
  /\ fails' = [fails EXCEPT ![t] = 0]
  /\ UNCHANGED <<subscriptions, mgrVars, krec, stop, subs, slotVars>>
  /\ UNCHANGED notCliVars

\* The dial fails: an error is emitted; without reconnect the loop is left,
\* with it wait_with_backoff starts.
ConnDialErr(t) ==
  /\ kpc[t] = "dial"
  /\ kpc' = [kpc EXCEPT ![t] = IF krec[t] THEN "wait" ELSE "final"]
  /\ fails' = OneMoreFail(t)
  /\ UNCHANGED <<subscriptions, mgrVars, krec, stop, backoff, subs, slotVars>>
  /\ UNCHANGED notCliVars

\* The shutdown branch of the select around the dial: break.  (select! may
\* take either branch when both are ready.)
ConnDialShutdown(t) ==
  /\ kpc[t] = "dial"
  /\ stop[t]
  /\ kpc' = [kpc EXCEPT ![t] = "final"]
  /\ UNCHANGED <<subscriptions, mgrVars, krec, stop, backoff, fails, subs, slotVars>>
  /\ UNCHANGED notCliVars

\* Line 251: writer.lock().await.replace(write_half).  The lock is released
\* at the end of the statement.
ConnInstall(t) ==
  /\ kpc[t] = "install"
  /\ writer' = t
  /\ wire' = <<>>
  /\ subsAtInstall' = subscriptions
  /\ kpc' = [kpc EXCEPT ![t] = "clone"]
  /\ UNCHANGED <<subscriptions, mgrVars, krec, stop, backoff, fails, subs>>
  /\ UNCHANGED notCliVars

\* resend_subscriptions, line 344: the set is cloned under the read lock.
ConnCloneSubs(t) ==
  /\ kpc[t] = "clone"
  /\ subs' = [subs EXCEPT ![t] = subscriptions]
  /\ kpc' = [kpc EXCEPT ![t] = "resend"]
  /\ UNCHANGED <<subscriptions, mgrVars, krec, stop, backoff, fails, slotVars>>
  /\ UNCHANGED notCliVars

\* resend_subscriptions, one iteration of the loop (the set is iterated in
\* any order): send_keep_alive takes the writer lock for this one frame.  A
\* failed write ends the loop with the error.
ConnResend(t, g, ok) ==
  /\ kpc[t] = "resend"
  /\ g \in subs[t]
  /\ IF writer = NoTask
       THEN wire' = wire /\ subs' = [subs EXCEPT ![t] = @ \ {g}]
       ELSE IF ok
         THEN /\ Len(wire) < MaxWire
              /\ wire' = Append(wire, Frame("SUBSCRIBE", g, "replay"))
              /\ subs' = [subs EXCEPT ![t] = @ \ {g}]
         ELSE wire' = wire /\ subs' = [subs EXCEPT ![t] = {}]
  /\ UNCHANGED <<writer, subsAtInstall, subscriptions, mgrVars, kpc, krec, stop, backoff,
                 fails>>
  /\ UNCHANGED notCliVars

\* resend_subscriptions has returned: the read loop starts.
ConnResendDone(t) ==
  /\ kpc[t] = "resend"
  /\ subs[t] = {}
  /\ kpc' = [kpc EXCEPT ![t] = "read"]
  /\ UNCHANGED <<subscriptions, mgrVars, krec, stop, backoff, fails, subs, slotVars>>
  /\ UNCHANGED notCliVars

\* The read loop ends on Ok(0) (closed by the remote host) or on a read
\* error.  (A line that is read is emitted and changes no state.)
ConnReadEnd(t) ==
  /\ kpc[t] = "read"
  /\ kpc' = [kpc EXCEPT ![t] = "closing"]
  /\ UNCHANGED <<subscriptions, mgrVars, krec, stop, backoff, fails, subs, slotVars>>
  /\ UNCHANGED notCliVars

\* The shutdown branch of the select in the read loop: break.
ConnReadShutdown(t) ==
  /\ kpc[t] = "read"
  /\ stop[t]
  /\ kpc' = [kpc EXCEPT ![t] = "closing"]
  /\ UNCHANGED <<subscriptions, mgrVars, krec, stop, backoff, fails, subs, slotVars>>
  /\ UNCHANGED notCliVars

\* Lines 290-304: the writer slot is emptied and the disconnected status
\* emitted; without reconnect the loop is left, with it wait_with_backoff
\* starts.
ConnClosing(t) ==
  /\ kpc[t] = "closing"
  /\ TakeWriter
  /\ kpc' = [kpc EXCEPT ![t] = IF krec[t] THEN "wait" ELSE "final"]
  /\ fails' = OneMoreFail(t)
  /\ UNCHANGED <<subscriptions, mgrVars, krec, stop, backoff, subs>>
  /\ UNCHANGED notCliVars

\* wait_with_backoff returns (the sleep is over, or shutdown was signalled)
\* and the backoff is doubled, lines 244-246 and 304-305.
ConnWaitDone(t) ==
  /\ kpc[t] = "wait"
  /\ backoff' = [backoff EXCEPT ![t] = NextBackoff(@)]
  /\ kpc' = [kpc EXCEPT ![t] = "dial"]
  /\ UNCHANGED <<subscriptions, mgrVars, krec, stop, fails, subs, slotVars>>
  /\ UNCHANGED notCliVars

\* Lines 308-316: the writer slot is emptied, the stopped status emitted and
\* the task returns.
ConnFinal(t) ==
  /\ kpc[t] = "final"
  /\ TakeWriter
  /\ kpc' = [kpc EXCEPT ![t] = "done"]
  /\ krec' = [krec EXCEPT ![t] = FALSE]
  /\ stop' = [stop EXCEPT ![t] = FALSE]
  /\ backoff' = [backoff EXCEPT ![t] = MIN_BACKOFF_SECS]
  /\ fails' = [fails EXCEPT ![t] = 0]
  /\ UNCHANGED <<subscriptions, mgrVars, subs>>
  /\ UNCHANGED notCliVars

NextClient ==
  \/ \E rec \in BOOLEAN : ClientConnect(rec)
  \/ ClientConnectSpawn
  \/ ClientDisconnect
  \/ ClientDisconnectDone
  \/ \E g \in Games : SubscribeGame(g)
  \/ \E ok \in BOOLEAN : SendFrame(ok)
  \/ KeepAlive
  \/ KeepAliveTick
  \/ \E t \in Conns : ConnDialOk(t)
  \/ \E t \in Conns : ConnDialErr(t)
  \/ \E t \in Conns : ConnDialShutdown(t)
  \/ \E t \in Conns : ConnInstall(t)
  \/ \E t \in Conns : ConnCloneSubs(t)
  \/ \E t \in Conns, g \in Games, ok \in BOOLEAN : ConnResend(t, g, ok)
  \/ \E t \in Conns : ConnResendDone(t)
  \/ \E t \in Conns : ConnReadEnd(t)
  \/ \E t \in Conns : ConnReadShutdown(t)
  \/ \E t \in Conns : ConnClosing(t)
  \/ \E t \in Conns : ConnWaitDone(t)
  \/ \E t \in Conns : ConnFinal(t)

\* connect and disconnect and the connection tasks they start, without
\* subscriptions, frames and ticker.
NextStop ==
  \/ \E rec \in BOOLEAN : ClientConnect(rec)
  \/ ClientConnectSpawn
  \/ ClientDisconnect
  \/ ClientDisconnectDone
  \/ \E t \in Conns : ConnDialOk(t)
  \/ \E t \in Conns : ConnDialErr(t)
  \/ \E t \in Conns : ConnDialShutdown(t)
  \/ \E t \in Conns : ConnInstall(t)
  \/ \E t \in Conns : ConnCloneSubs(t)
  \/ \E t \in Conns : ConnResendDone(t)
  \/ \E t \in Conns : ConnReadEnd(t)
  \/ \E t \in Conns : ConnReadShutdown(t)
  \/ \E t \in Conns : ConnClosing(t)
  \/ \E t \in Conns : ConnWaitDone(t)
  \/ \E t \in Conns : ConnFinal(t)

\* wait_with_backoff, line 370: the shutdown branch of its select.
ConnWaitShutdown(t) == stop[t] /\ ConnWaitDone(t)

\* What a connection task does without waiting for the network or a timer.
ConnRuns(t) ==
  \/ ConnInstall(t)
  \/ ConnCloneSubs(t)
  \/ ConnResendDone(t)
  \/ ConnClosing(t)
  \/ ConnFinal(t)

\* ---------------------------------------------------------------------
\* The game state of a session: update_state_from_line (tlcs.rs)
\* ---------------------------------------------------------------------

\* Option<T>
Absent == [some |-> FALSE]
Some(v) == [some |-> TRUE, v |-> v]

\* str::trim: leading and trailing whitespace removed.
RECURSIVE TrimStart(_)
TrimStart(s) ==
  IF s # "" /\ Ch(s, 1) \in WhiteSpace THEN TrimStart(SubSeq(s, 2, Len(s))) ELSE s

RECURSIVE TrimEnd(_)
TrimEnd(s) ==
  IF s # "" /\ Ch(s, Len(s)) \in WhiteSpace THEN TrimEnd(SubSeq(s, 1, Len(s) - 1)) ELSE s

Trim(s) == TrimEnd(TrimStart(s))

\* str::strip_prefix
StripPrefix(s, p) ==
  IF Len(s) >= Len(p) /\ SubSeq(s, 1, Len(p)) = p
    THEN Some(SubSeq(s, Len(p) + 1, Len(s)))
    ELSE Absent

\* u8::to_ascii_lowercase
UpperLetters == "ABCDEFGHIJKLMNOPQRSTUVWXYZ"
LowerLetters == "abcdefghijklmnopqrstuvwxyz"

AsciiLower(c) ==
  IF \E i \in 1..26 : Ch(UpperLetters, i) = c
    THEN Ch(LowerLetters, CHOOSE i \in 1..26 : Ch(UpperLetters, i) = c)
    ELSE c

\* Equality of the bytes, letter case included.
EqExact(a, b) == a = b

\* str::eq_ignore_ascii_case
EqIgnoreAsciiCase(a, b) ==
  /\ Len(a) = Len(b)
  /\ \A i \in 1..Len(a) : AsciiLower(Ch(a, i)) = AsciiLower(Ch(b, i))

\* u64::MAX, in decimal.  A u64 is kept as its decimal digits without leading
\* zeros, which has room for all 64 bits.
U64Max == "18446744073709551615"

DigitString == "0123456789"
DigitVal(c) == (CHOOSE i \in 1..10 : Ch(DigitString, i) = c) - 1

RECURSIVE DropLeadingZeros(_)
DropLeadingZeros(s) ==
  IF Len(s) > 1 /\ Ch(s, 1) = "0" THEN DropLeadingZeros(SubSeq(s, 2, Len(s))) ELSE s

\* a <= b for two digit strings of the same length
RECURSIVE DigitsLeq(_, _)
DigitsLeq(a, b) ==
  IF a = "" THEN TRUE
  ELSE IF DigitVal(Ch(a, 1)) < DigitVal(Ch(b, 1)) THEN TRUE
  ELSE IF DigitVal(Ch(a, 1)) > DigitVal(Ch(b, 1)) THEN FALSE
  ELSE DigitsLeq(SubSeq(a, 2, Len(a)), SubSeq(b, 2, Len(b)))

\* str::parse::<u64>: an optional "+", then one digit at least and digits
\* only; Err on overflow.
ParseU64(s) ==
  LET body == IF Ch(s, 1) = "+" THEN SubSeq(s, 2, Len(s)) ELSE s
      canon == DropLeadingZeros(body)
  IN IF body = "" \/ ~AllDigits(body) THEN Absent
     ELSE IF Len(canon) > Len(U64Max) THEN Absent
     ELSE IF Len(canon) = Len(U64Max) /\ ~DigitsLeq(canon, U64Max) THEN Absent
     ELSE Some(canon)

\* TlcsGameState::default()
DefaultGameState ==
  [fen |-> Absent, white_clock_ms |-> Absent, black_clock_ms |-> Absent,
   status |-> Absent, last_move |-> Absent,
   can_offer_draw |-> FALSE, can_accept_draw |-> FALSE, can_resign |-> FALSE]

\* A clock line that zeroes both clocks whatever its parts are.
ClockPartsZero(state, parts) ==
  [state EXCEPT !.white_clock_ms = Some("0"), !.black_clock_ms = Some("0")]

\* update_state_from_line, lines 690-701: the loop over the parts of a clock
\* line.
RECURSIVE ClockParts(_, _)
ClockParts(state, parts) ==
  IF parts = <<>> THEN state
  ELSE LET part == Head(parts)
           w == StripPrefix(part, "w=")
           b == StripPrefix(part, "b=")
           s1 == IF w.some /\ ParseU64(w.v).some
                   THEN [state EXCEPT !.white_clock_ms = ParseU64(w.v)]
                   ELSE state
           s2 == IF b.some /\ ParseU64(b.v).some
                   THEN [s1 EXCEPT !.black_clock_ms = ParseU64(b.v)]
                   ELSE s1
       IN ClockParts(s2, Tail(parts))

\* update_state_from_line, lines 712-713
SetOfferOnly(state) == [state EXCEPT !.can_offer_draw = TRUE]

SetOfferAndResign(state) == [state EXCEPT !.can_offer_draw = TRUE, !.can_resign = TRUE]

\* update_state_from_line
UpdateStateFromLine(state, line) ==
  LET normalized == Trim(line)
      fen == StripPrefix(normalized, "fen ")
      s1 == IF fen.some THEN [state EXCEPT !.fen = Some(Trim(fen.v))] ELSE state
      status == StripPrefix(normalized, "status ")
      s2 == IF status.some THEN [s1 EXCEPT !.status = Some(Trim(status.v))] ELSE s1
      last_move == StripPrefix(normalized, "move ")
      s3 == IF last_move.some THEN [s2 EXCEPT !.last_move = Some(Trim(last_move.v))]
            ELSE s2
      clock_line == StripPrefix(normalized, "clock ")
      s4 == IF clock_line.some THEN ClockParts(s3, SplitWhitespace(clock_line.v)) ELSE s3
      s5 == IF EqIgnoreAsciiCase(normalized, "offer draw")
              THEN [s4 EXCEPT !.can_accept_draw = TRUE] ELSE s4
      s6 == IF EqIgnoreAsciiCase(normalized, "offer cancel")
              THEN [s5 EXCEPT !.can_accept_draw = FALSE] ELSE s5
  IN SetOfferAndResign(s6)

\* Lines a server may send: every kind of line update_state_from_line
\* knows, with and without padding, in other letter cases, with clock values
\* that do and do not parse, and lines it does not know.
GameLines ==
  {"fen r1bqkbnr/8 w", "  fen   8/8/k7 b \r", "fen", "FEN 8/8 w", "fenx 8/8",
   "status playing", "status  ", "move e2e4", " move  e7e5",
   "clock w=60000 b=60000", "clock w=59000 b=61000", "clock w=abc b=5",
   "clock w=+7", "clock b=-1 w=007", "clock w=1 w=2", "clock",
   "clock w=18446744073709551615", "clock b=18446744073709551616",
   "offer draw", "  OFFER Draw ", "offer cancel", "Offer Cancel", "offer  draw",
   "offer draw now", "", "   ", "hello"}

RECURSIVE LowerString(_)
LowerString(s) ==
  IF s = "" THEN "" ELSE AsciiLower(Ch(s, 1)) \o LowerString(SubSeq(s, 2, Len(s)))

\* Which offer line a line is, if any: "draw", "cancel" or none.
OfferOf ==
  [l \in GameLines |->
     CASE LowerString(Trim(l)) = "offer draw" -> "draw"
       [] LowerString(Trim(l)) = "offer cancel" -> "cancel"
       [] OTHER -> None]

InitGame ==
  /\ gameState = DefaultGameState
  /\ gprev = DefaultGameState
  /\ gline = ""
  /\ gseen = 0
  /\ lastOffer = None

\* handle_stream, line 622: a session starts with the default game state.
GameSessionStart ==
  /\ gseen > 0
  /\ gameState' = DefaultGameState
  /\ gprev' = DefaultGameState
  /\ gline' = ""
  /\ gseen' = 0
  /\ lastOffer' = None
  /\ UNCHANGED notGameVars

\* handle_stream, lines 637-640: a line arrives and update_state_from_line
\* is applied to the game state of the session.
GameLine(line) ==
  /\ gseen < MaxGameLines
  /\ gameState' = UpdateStateFromLine(gameState, line)
  /\ gprev' = gameState
  /\ gline' = line
  /\ gseen' = gseen + 1
  /\ lastOffer' = IF OfferOf[line] = None THEN lastOffer ELSE OfferOf[line]
  /\ UNCHANGED notGameVars

NextGame ==
  \/ GameSessionStart
  \/ \E line \in GameLines : GameLine(line)

\* ---------------------------------------------------------------------
\* RotatingLog (tlcs.rs)
\* ---------------------------------------------------------------------
DEFAULT_ROTATION_BYTES == 512 * 1024
DEFAULT_ROTATION_FILES == 5

\* The file names of the log: 0 is the primary (tlcs.log), i is tlcs.log.i.
\* One name more than the backups the log may keep is watched.
LogNames == 0..(DEFAULT_ROTATION_FILES + 1)

\* A file is its size in bytes and the generation it was created as.
NoFile == [exists |-> FALSE]
File(size, gen) == [exists |-> TRUE, size |-> size, gen |-> gen]

\* The sizes of the lines "[now][level] message\n" that are written: a short
\* one, one of half the rotation size, and one longer than the rotation size
\* (the message of "RX: <line>" is as long as the line the server sent).
LineSizes == {64, 256 * 1024, 600000}

\* std::fs::rename(from, to), its Result ignored: when it succeeds the file
\* is under the new name, replacing what was there; when it fails nothing
\* moves.
Rename(files, from, to, ok) ==
  IF ok /\ files[from].exists
    THEN [files EXCEPT ![to] = files[from], ![from] = NoFile]
    ELSE files

\* rotate_if_needed, lines 86-92: the loop over index = max_files-1 .. 1.
\* failAt is the index whose rename fails, if any.
RECURSIVE ShiftBackups(_, _, _)
ShiftBackups(files, index, failAt) ==
  IF index < 1 THEN files
  ELSE ShiftBackups(IF files[index].exists
                      THEN Rename(files, index, index + 1, index # failAt)
                      ELSE files,
                    index - 1, failAt)

\* rotate_if_needed, line 82: the size check as it would be with > for >=.
NeedsRotationStrict(files, max_bytes) ==
  files[0].exists /\ files[0].size > max_bytes

\* rotate_if_needed, lines 77-84: the primary exists and its size is at or
\* above max_bytes.
NeedsRotation(files, max_bytes) ==
  files[0].exists /\ files[0].size >= max_bytes

\* rotate_if_needed.  failAt is the rename that fails: 0 for the rename of
\* the primary, i for the rename of backup i, -1 for none.
RotateIfNeeded(files, max_bytes, max_files, failAt) ==
  IF ~NeedsRotation(files, max_bytes) THEN files
  ELSE Rename(ShiftBackups(files, max_files - 1, failAt), 0, 1, failAt # 0)

\* write, lines 67-72: the primary is opened with create and append, and the
\* line is added to it.
AppendLine(files, size, gen) ==
  IF files[0].exists
    THEN [files EXCEPT ![0] = File(@.size + size, @.gen)]
    ELSE [files EXCEPT ![0] = File(size, gen)]

InitLog ==
  /\ logFiles = [n \in LogNames |-> NoFile]
  /\ logGen = 0
  /\ rotated = <<>>
  /\ logClean = TRUE
  /\ logLast = [rotated |-> FALSE, found |-> -1, size |-> 0]
  /\ logWrites = 0

\* RotatingLog::write by the one writer of the log.
LogWrite(size, failAt) ==
  /\ logWrites < MaxLogWrites
  /\ LET needs == NeedsRotation(logFiles, DEFAULT_ROTATION_BYTES)
         after == RotateIfNeeded(logFiles, DEFAULT_ROTATION_BYTES,
                                 DEFAULT_ROTATION_FILES, failAt)
         moved == needs /\ ~after[0].exists
         failed == needs /\ failAt >= 0 /\ logFiles[failAt].exists
     IN /\ logFiles' = AppendLine(after, size, logGen + 1)
        /\ logGen' = IF after[0].exists THEN logGen ELSE logGen + 1
        /\ rotated' = IF moved THEN <<logFiles[0].gen>> \o rotated ELSE rotated
        /\ logClean' = (logClean /\ ~failed)
        /\ logLast' = [rotated |-> needs,
                        found |-> IF logFiles[0].exists THEN logFiles[0].size ELSE -1,
                        size |-> size]
  /\ logWrites' = logWrites + 1
  /\ UNCHANGED notLogVars

NextLog ==
  \E size \in LineSizes, failAt \in -1..(DEFAULT_ROTATION_FILES - 1) :
    LogWrite(size, failAt)

\* ---------------------------------------------------------------------
\* The writer mutex of the subscription TlcsManager (tlcs_client.rs)
\* ---------------------------------------------------------------------

\* Who writes frames: a manager call through send_frame (subscribe_game,
\* send_move), the keep-alive ticker, and the connection task replaying the
\* subscriptions; the last two through send_keep_alive.
Writers == {"call", "ticker", "replay"}

\* What each of them may send.
MessagesOf(w) ==
  CASE w = "call" -> {"SUBSCRIBE g1", "MOVE g1 e2e4"}
    [] w = "ticker" -> {"PING", "HB\r\n"}
    [] w = "replay" -> {"SUBSCRIBE g1", "SUBSCRIBE g2"}

EndsWithCrLf(m) == Len(m) >= 2 /\ SubSeq(m, Len(m) - 1, Len(m)) = "\r\n"

\* send_frame, lines 160-163, and send_keep_alive, lines 357-360.
Framed(m) == IF EndsWithCrLf(m) THEN m ELSE m \o "\r\n"

\* write_all hands the frame to the socket in pieces, with an await between
\* them: here a first piece and the rest.
FirstPiece(f) == SubSeq(f, 1, Len(f) \div 2)
Rest(f) == SubSeq(f, (Len(f) \div 2) + 1, Len(f))

NoFrame == [id |-> 0, text |-> ""]

InitWriter ==
  /\ wlock = None
  /\ wpc = [w \in Writers |-> [at |-> "idle", frame |-> NoFrame]]
  /\ slot = FALSE
  /\ bytes = <<>>
  /\ started = 0

\* Mutex::lock returns only when nobody holds the mutex.
LockFreeAlways == TRUE

LockFree == wlock = None

\* run_connection, line 251: writer.lock().await.replace(write_half); the
\* guard lives to the end of the statement.  The connection task does this
\* between two replays.
SlotInstall ==
  /\ LockFree
  /\ wpc["replay"].at = "idle"
  /\ ~slot
  /\ slot' = TRUE
  /\ bytes' = <<>>
  /\ UNCHANGED <<wlock, wpc, started>>
  /\ UNCHANGED notWrVars

\* run_connection, lines 290 and 308, and shutdown, line 147:
\* writer.lock().await.take().
SlotTake ==
  /\ LockFree
  /\ wpc["replay"].at = "idle"
  /\ slot
  /\ slot' = FALSE
  /\ UNCHANGED <<wlock, wpc, bytes, started>>
  /\ UNCHANGED notWrVars

\* send_frame, lines 152-158, and send_keep_alive, lines 355-356: the lock is
\* taken; with an empty slot the guard is dropped at once (send_frame
\* returns the error, send_keep_alive returns Ok).
FrameLock(w, m) ==
  /\ wpc[w].at = "idle"
  /\ LockFree
  /\ slot
  /\ started < MaxFrames
  /\ started' = started + 1
  /\ wlock' = w
  /\ wpc' = [wpc EXCEPT ![w] = [at |-> "held", frame |-> [id |-> started + 1, text |-> Framed(m)]]]
  /\ UNCHANGED <<slot, bytes>>
  /\ UNCHANGED notWrVars

\* write_all, lines 165 and 361: the next piece is written, or the write
\* fails and the guard is dropped with the error.
FrameWrite(w, ok) ==
  /\ wpc[w].at \in {"held", "part"}
  /\ IF ok
       THEN /\ bytes' = Append(bytes, [id |-> wpc[w].frame.id,
                                       text |-> IF wpc[w].at = "held"
                                                  THEN FirstPiece(wpc[w].frame.text)
                                                  ELSE Rest(wpc[w].frame.text)])
            /\ wpc' = [wpc EXCEPT ![w].at = IF @ = "held" THEN "part" ELSE "written"]
            /\ wlock' = wlock
       ELSE /\ bytes' = bytes
            /\ wpc' = [wpc EXCEPT ![w] = [at |-> "idle", frame |-> NoFrame]]
            /\ wlock' = IF wlock = w THEN None ELSE wlock
  /\ UNCHANGED <<slot, started>>
  /\ UNCHANGED notWrVars

\* flush, lines 166 and 362, after which the guard is dropped.
FrameFlush(w) ==
  /\ wpc[w].at = "written"
  /\ wpc' = [wpc EXCEPT ![w] = [at |-> "idle", frame |-> NoFrame]]
  /\ wlock' = IF wlock = w THEN None ELSE wlock
  /\ UNCHANGED <<slot, bytes, started>>
  /\ UNCHANGED notWrVars

\* start_keep_alive, lines 171-173, and shutdown, lines 139-141: the ticker is
\* aborted at the await it is in; a guard it holds is dropped.  (A new ticker
\* takes its place, or none.)
TickerAbort ==
  /\ wpc["ticker"].at # "idle"
  /\ wpc' = [wpc EXCEPT !["ticker"] = [at |-> "idle", frame |-> NoFrame]]
  /\ wlock' = IF wlock = "ticker" THEN None ELSE wlock
  /\ UNCHANGED <<slot, bytes, started>>
  /\ UNCHANGED notWrVars

NextWriter ==
  \/ SlotInstall
  \/ SlotTake
  \/ \E w \in Writers : \E m \in MessagesOf(w) : FrameLock(w, m)
  \/ \E w \in Writers, ok \in BOOLEAN : FrameWrite(w, ok)
  \/ \E w \in Writers : FrameFlush(w)
  \/ TickerAbort

\* ---------------------------------------------------------------------
\* start_tlcs_stream and stop_tlcs_stream (tlcs.rs)
\* ---------------------------------------------------------------------
Streams == 1..MaxStreams
PgnPaths == {"a.pgn", "b.pgn"}

\* The steps of start_tlcs_stream that can fail before the handle slot is
\* locked: the log directory (309, 41), the PGN directory and file (137,
\* 140), the initial FEN (143-144), the PGN headers (171-183).
Failures == {"dir", "pgn", "fen", "headers"}

NoStart == [fail |-> "none", found |-> NoTask, tasks |-> 0, path |-> ""]

InitStream ==
  /\ tlcsHandle = NoTask
  /\ streamTask = [t \in Streams |-> [at |-> "unborn", path |-> ""]]
  /\ pgnFiles = [p \in PgnPaths |-> "absent"]
  /\ streamRet = "none"
  /\ streamLast = NoStart
  /\ spawned = 0
  /\ starts = 0

\* File::create, line 140, has run when the call got past the PGN step:
\* the file exists and is empty, then the headers are buffered.
PgnAfter(fail, old) ==
  CASE fail \in {"dir", "pgn"} -> old
    [] fail \in {"fen", "headers"} -> "empty"
    [] OTHER -> "headers"

\* (The slot as a start that took the handle before its fallible steps
\* would leave it.)
SlotTakenFirst == NoTask

\* Lines 308-332 return the error with `?`, before line 334 locks the slot.
SlotWhenFailed == tlcsHandle

\* handle.stop(), lines 295-298: the task is signalled and awaited.
Stopped(tasks, h) ==
  IF h = NoTask THEN tasks ELSE [tasks EXCEPT ![h].at = "ended"]

\* start_tlcs_stream, lines 303-394.
StartStream(path, fail) ==
  /\ starts < MaxStarts
  /\ fail \in Failures \cup {"none"}
  /\ fail = "none" => spawned < MaxStreams
  /\ starts' = starts + 1
  /\ streamLast' = [fail |-> fail, found |-> tlcsHandle, tasks |-> spawned, path |-> path]
  /\ pgnFiles' = [pgnFiles EXCEPT ![path] = PgnAfter(fail, @)]
  /\ IF fail # "none"
       THEN /\ streamRet' = "err"
            /\ tlcsHandle' = SlotWhenFailed
            /\ UNCHANGED <<streamTask, spawned>>
       ELSE /\ streamRet' = path
            /\ spawned' = spawned + 1
            /\ tlcsHandle' = spawned + 1
            /\ streamTask' = [Stopped(streamTask, tlcsHandle) EXCEPT
                                ![spawned + 1] = [at |-> "running", path |-> path]]
  /\ UNCHANGED notStrVars

\* stop_tlcs_stream, lines 398-410.
StopStream ==
  /\ IF tlcsHandle = NoTask
       THEN /\ streamRet' = "none"
            /\ UNCHANGED <<tlcsHandle, streamTask>>
       ELSE /\ streamRet' = streamTask[tlcsHandle].path
            /\ tlcsHandle' = NoTask
            /\ streamTask' = Stopped(streamTask, tlcsHandle)
  /\ UNCHANGED <<pgnFiles, streamLast, spawned, starts>>
  /\ UNCHANGED notStrVars

\* The spawned task, lines 358-366: a line with a move is recorded: the
\* headers and the move text are flushed to the recorder's file.
StreamLine(t) ==
  /\ streamTask[t].at = "running"
  /\ pgnFiles' = [pgnFiles EXCEPT ![streamTask[t].path] = "moves"]
  /\ UNCHANGED <<tlcsHandle, streamTask, streamRet, streamLast, spawned, starts>>
  /\ UNCHANGED notStrVars

\* The spawned task, lines 367-374 and 380-382: the dial fails, the server
\* closes the stream or a read fails: the task ends, its handle stays.
StreamEnd(t) ==
  /\ streamTask[t].at = "running"
  /\ streamTask' = [streamTask EXCEPT ![t].at = "ended"]
  /\ UNCHANGED <<tlcsHandle, pgnFiles, streamRet, streamLast, spawned, starts>>
  /\ UNCHANGED notStrVars

NextStream ==
  \/ \E path \in PgnPaths, fail \in Failures \cup {"none"} : StartStream(path, fail)
  \/ StopStream
  \/ \E t \in Streams : StreamLine(t)
  \/ \E t \in Streams : StreamEnd(t)

\* ---------------------------------------------------------------------
\* RotatingLog::write by two tasks at once (tlcs.rs)
\* ---------------------------------------------------------------------
\* The recording task (log_clone, lines 349-381) and a command that logs
\* while the task runs (start_tlcs_stream, line 321, through a RotatingLog
\* of its own on the same path; stop_tlcs_stream, line 405).  RotatingLog
\* holds a path and two numbers, and no lock.
RaceWriters == {"task", "command"}
RaceFiles == 1..MaxRaceWrites
LineKinds == {"short", "long"}

\* writeln!(file, "[{now}][{level}] {message}"), line 72, on an unbuffered
\* File: write_fmt hands every fragment of the format to write_all by
\* itself.  Two pieces stand for the fragments: "[now][level] " and
\* "message\n".
PieceSize(kind, part) ==
  CASE part = "head" -> 44
    [] part = "tail" /\ kind = "short" -> 20
    [] OTHER -> 599956

RECURSIVE SizeOf(_)
SizeOf(pieces) ==
  IF pieces = <<>> THEN 0
  ELSE PieceSize(Head(pieces).kind, Head(pieces).part) + SizeOf(Tail(pieces))

Resting == [at |-> "idle", index |-> 0, fd |-> 0, line |-> 0, kind |-> "short"]

InitRace ==
  /\ rnames = [n \in LogNames |-> 0]
  /\ rfiles = [f \in RaceFiles |-> <<>>]
  /\ rpc = [w \in RaceWriters |-> Resting]
  /\ rlines = 0
  /\ discarded = {}

\* std::fs::rename(from, to) on the names, its Result ignored: nothing
\* moves when from is not there.
RaceRename(from, to) ==
  IF rnames[from] = 0
    THEN UNCHANGED <<rnames, discarded>>
    ELSE /\ rnames' = [rnames EXCEPT ![to] = rnames[from], ![from] = 0]
         /\ discarded' = IF rnames[to] = 0 THEN discarded
                         ELSE discarded \cup {[file |-> rnames[to], name |-> to]}

\* write, line 66, and rotate_if_needed, lines 77-84: the size check.
RaceCheck(w, kind) ==
  /\ rpc[w].at = "idle"
  /\ rlines < MaxRaceWrites
  /\ rlines' = rlines + 1
  /\ rpc' = [rpc EXCEPT ![w] =
       [at |-> IF rnames[0] # 0 /\ SizeOf(rfiles[rnames[0]]) >= DEFAULT_ROTATION_BYTES
                 THEN "shift" ELSE "open",
        index |-> DEFAULT_ROTATION_FILES - 1, fd |-> 0, line |-> rlines + 1, kind |-> kind]]
  /\ UNCHANGED <<rnames, rfiles, discarded>>
  /\ UNCHANGED notRaceVars

\* rotate_if_needed, lines 86-92: one turn of the loop over the backups.
RaceShift(w) ==
  /\ rpc[w].at = "shift"
  /\ RaceRename(rpc[w].index, rpc[w].index + 1)
  /\ rpc' = [rpc EXCEPT ![w].index = @ - 1,
                        ![w].at = IF rpc[w].index = 1 THEN "primary" ELSE "shift"]
  /\ UNCHANGED <<rfiles, rlines>>
  /\ UNCHANGED notRaceVars

\* rotate_if_needed, lines 94-95: the primary is renamed to backup 1.
RacePrimary(w) ==
  /\ rpc[w].at = "primary"
  /\ RaceRename(0, 1)
  /\ rpc' = [rpc EXCEPT ![w].at = "open"]
  /\ UNCHANGED <<rfiles, rlines>>
  /\ UNCHANGED notRaceVars

\* write, lines 67-70: the primary is opened, created when it is not there.
RaceOpen(w) ==
  /\ rpc[w].at = "open"
  /\ IF rnames[0] # 0
       THEN /\ rpc' = [rpc EXCEPT ![w].at = "head", ![w].fd = rnames[0]]
            /\ rnames' = rnames
       ELSE \E f \in RaceFiles :
              /\ rfiles[f] = <<>>
              /\ \A n \in LogNames : rnames[n] # f
              /\ \A d \in discarded : d.file # f
              /\ \A g \in RaceFiles :
                   (g < f) => (rfiles[g] # <<>> \/ \E n \in LogNames : rnames[n] = g
                               \/ \E d \in discarded : d.file = g)
              /\ rnames' = [rnames EXCEPT ![0] = f]
              /\ rpc' = [rpc EXCEPT ![w].at = "head", ![w].fd = f]
  /\ UNCHANGED <<rfiles, rlines, discarded>>
  /\ UNCHANGED notRaceVars

\* write, line 72: one fragment of the line is appended to the open file,
\* whatever its name is by now.
RaceAppend(w) ==
  /\ rpc[w].at \in {"head", "tail"}
  /\ rfiles' = [rfiles EXCEPT ![rpc[w].fd] =
                  Append(@, [line |-> rpc[w].line, kind |-> rpc[w].kind, part |-> rpc[w].at])]
  /\ rpc' = [rpc EXCEPT ![w] = IF rpc[w].at = "head" THEN [@ EXCEPT !.at = "tail"] ELSE Resting]
  /\ UNCHANGED <<rnames, rlines, discarded>>
  /\ UNCHANGED notRaceVars

NextRace ==
  \/ \E w \in RaceWriters, kind \in LineKinds : RaceCheck(w, kind)
  \/ \E w \in RaceWriters : RaceShift(w)
  \/ \E w \in RaceWriters : RacePrimary(w)
  \/ \E w \in RaceWriters : RaceOpen(w)
  \/ \E w \in RaceWriters : RaceAppend(w)

Init ==
  InitRecorder /\ InitSupervisor /\ InitClient /\ InitGame /\ InitLog /\ InitWriter
  /\ InitStream
  /\ InitRace

SpecRecorder == Init /\ [][NextRecorder]_vars

\* The connection managers run beside a recorder that is left alone.
InitManagers == Init /\ startPos = StdStart

SpecSupervisor == InitManagers /\ [][NextSupervisor]_vars

SpecConcurrent == InitManagers /\ [][NextConcurrent]_vars

SpecSession == InitManagers /\ [][NextSession]_vars

\* The runtime keeps polling a future that can go on: a call that has begun
\* runs on as soon as what it awaits is there, and a spawned task runs on.
SpecCalls ==
  /\ InitManagers
  /\ [][NextCalls]_vars
  /\ WF_vars(CallBody("c1"))
  /\ WF_vars(\E t \in Tasks : SessionStep(t))

\* tokio's select! (without "biased") polls its branches in a random order
\* on every turn of the loop of handle_stream, so a branch that stays ready
\* is taken in the end: weak fairness of the line branch and of the control
\* branch.
SpecConnected ==
  /\ InitManagers
  /\ [][NextConnected]_vars
  /\ \A t \in Tasks : WF_vars(LineIn(t)) /\ WF_vars(Control(t, TRUE))

SpecClient == InitManagers /\ [][NextClient]_vars

\* The runtime polls a task that can go on, and a select whose shutdown
\* branch is ready takes it in the end (changed() stays ready once the
\* sender has sent and is dropped).  Nothing is assumed of the dial, the
\* read and the sleep: they need not complete.
SpecStop ==
  /\ InitManagers
  /\ [][NextStop]_vars
  /\ WF_vars(ClientConnectSpawn)
  /\ WF_vars(ClientDisconnectDone)
  /\ \A t \in Conns :
       /\ WF_vars(ConnRuns(t))
       /\ SF_vars(ConnDialShutdown(t))
       /\ SF_vars(ConnReadShutdown(t))
       /\ SF_vars(ConnWaitShutdown(t))

SpecGame == InitManagers /\ [][NextGame]_vars

SpecLog == InitManagers /\ [][NextLog]_vars

SpecWriter == InitManagers /\ [][NextWriter]_vars

SpecStream == InitManagers /\ [][NextStream]_vars

SpecRace == InitManagers /\ [][NextRace]_vars

\* ---------------------------------------------------------------------
\* Claims about TlcsRecorder
\* ---------------------------------------------------------------------

\* The step in which append_token examines a result marker.
ResultStep == ret = "busy" /\ pending # <<>> /\ Head(pending) \in ResultMarkers

\* C7 (as amended): the result is set at most once.  The first result marker
\* records itself as the result and, when the write succeeds, its text is the
\* text added to the output; a later result marker, equal or different, leaves
\* the result and the output as they were; no step changes a result once set.
C7_ResultSetOnce ==
  [][/\ (result # None => result' = result)
     /\ (ResultStep =>
           IF result = None
             THEN /\ result' = Head(pending)
                  /\ (last'.ret = "ok" => output' = output \o Head(pending) \o "\n")
             ELSE /\ result' = result
                  /\ output' = output
                  /\ last'.ret = "ok")]_vars

\* C7 witness: a result marker different from the recorded result was processed.
C7_Witness ==
  last.class = "result" /\ last.hadResult /\ result # None /\ last.tok # result

\* C7 as first stated: the first result marker always writes its text.
C7_Original ==
  [][ResultStep =>
       IF result = None
         THEN result' = Head(pending) /\ output' = output \o Head(pending) \o "\n"
         ELSE result' = result /\ output' = output]_vars

\* Replaying a move list from a position with the rules engine.
RECURSIVE Replay(_, _)
Replay(pos, ms) ==
  IF ms = <<>> THEN [ok |-> TRUE, pos |-> pos]
  ELSE LET uci == UciFromAscii(Head(ms))
           m == IF uci.ok THEN UciToMove(uci, pos) ELSE NoParse
       IN IF m.ok THEN Replay(Play(pos, m.mv), Tail(ms)) ELSE NoParse

\* C8: the move list is as long as the number of moves played on the
\* position, and replaying it from the starting position gives the current
\* position, in every reachable state (after failed writes too).
C8_MovesReplayToPosition ==
  /\ Len(moves) = applied
  /\ Replay(startPos, moves).ok
  /\ Replay(startPos, moves).pos = position

\* C8 witness: two moves are recorded, and the write of a third legal move
\* has just failed.
C8_Witness ==
  Len(moves) >= 2 /\ last.class = "legal" /\ last.io \in {"fail_lost", "fail_kept"}

\* C9: a token that is neither a result marker nor a legal move is dropped
\* silently: append_token returns Ok.
C9_IllegalTokenDroppedSilently == last.class = "not_move" => last.ret = "ok"

\* C10: the text written for a move applied at ply p is "<p/2+1>. <san> " on
\* an even ply and "<san> " on an odd one, <san> being the algebraic notation
\* of the move whichever notation the token used.
C10_TextIsAlgebraic == last.played => last.text = SanText(last.ply, last.san)

\* ---------------------------------------------------------------------
\* Claims about the control-channel TlcsManager and run_connection
\* ---------------------------------------------------------------------

\* C1: under every interleaving of connect, disconnect and reconnect calls
\* of concurrent callers, at most one run_connection task of the manager is
\* alive, and the handle of a task that is still running is never dropped
\* (its sender stays open as long as the task runs).
C1_AtMostOneLiveTask ==
  /\ Cardinality({t \in Tasks : Alive(t)}) <= 1
  /\ \A t \in Tasks : Alive(t) => txOpen[t]

\* The task whose handle a disconnect() call took out has received that
\* call's Disconnect message (it is no longer queued) and has not returned.
DisconnectProcessed(t) ==
  /\ \E c \in Callers : cpc[c] = "djoin" /\ cheld[c] = t
  /\ Alive(t)
  /\ \A i \in 1..Len(chan[t]) : chan[t][i] # DisconnectMsg

\* C3: once the session has processed the Disconnect of a disconnect() call
\* the supervisor stops: it is on its way out of run_connection, it neither
\* sleeps nor dials nor runs a session again, and it emits no Connecting
\* status, whatever auto_reconnect is.
C3_DisconnectStops ==
  \A t \in Tasks :
    DisconnectProcessed(t) => tpc[t] = "check" /\ tstatus[t] # "Connecting"

\* C4: a session closed by a Reconnect control message is followed by a new
\* dial attempt: the supervisor does not return and does not emit the
\* terminal Disconnected status, whatever auto_reconnect is.
C4_ReconnectRedials ==
  [][\A t \in Tasks :
       (tpc[t] = "check" /\ why[t] = "reconnect") =>
          (tpc'[t] # "done" /\ tstatus'[t] # "Disconnected")]_vars

\* C16: in every session of a connection with a username the first frame
\* written to the socket is the login frame, before any queued command; and
\* when the write of the login frame fails the session closes with an Error
\* status and without a frame written.
C16_LoginFrameFirst ==
  \A t \in Tasks :
    IF topts[t] = NoArgs THEN TRUE
    ELSE topts[t].user =>
      /\ sent[t] # <<>> => sent[t][1] = LoginFrame
      /\ tpc[t] = "login" => sent[t] = <<>>
      /\ (tpc[t] = "check" /\ why[t] # "dial" /\ sent[t] = <<>>) => tstatus[t] = "Error"

\* A command queued before the session began has been written after the
\* login frame.
C16_Witness ==
  \E t \in Tasks :
    /\ topts[t] # NoArgs
    /\ tpc[t] = "session"
    /\ Len(sent[t]) = 2
    /\ sent[t][1] = LoginFrame
    /\ sent[t][2] = [text |-> "RESIGN\r\n", id |-> 1]

\* C17: the Send commands are written in the order send_action queued them,
\* none twice, also across the sessions of a connection; and the game events
\* of a session follow the arrival order of its lines: the line after the
\* one of the last event is the oldest unread one.
C17_WrittenInSubmissionOrder ==
  /\ \A i, j \in 1..Len(writtenIds) : i < j => writtenIds[i] < writtenIds[j]
  /\ \A i \in 1..Len(writtenIds) : writtenIds[i] \in 1..submitted
  /\ \A t \in Tasks :
       NextTag(lastEvent[t]) =
         IF inbox[t] = <<>> THEN NextTag(lastArrived[t]) ELSE Head(inbox[t])

\* The first command was written in an earlier session of the connection and
\* the second one in this session; an event has been emitted and two lines
\* have arrived since.
C17_Witness ==
  \E t \in Tasks :
    /\ tpc[t] = "session"
    /\ writtenIds = <<1, 2>>
    /\ Len(sent[t]) = 1
    /\ sent[t][1].id = 2
    /\ lastEvent[t] # 0
    /\ Len(inbox[t]) = 2

SessionConnected == \E t \in Tasks : tpc[t] \in {"login", "session"}

\* C19: a send_action call made while no session is connected (no handle,
\* the task dialing or sleeping, or the task ended) returns an error and
\* queues nothing, so that no frame is written and no reconnect is triggered
\* for it.
C19_SendActionNeedsSession ==
  [][((\E action \in UserActions : SendAction("c1", action)) /\ ~SessionConnected)
       => (cret' # "ok" /\ chan' = chan)]_vars

\* No connect() has been called on the manager: no task was ever spawned.
NeverConnected == \A t \in Tasks : tpc[t] = "unborn"

\* C20: reconnect() fails exactly when no connect() was ever called, with
\* "No previous connection", without a task spawned and with the handle slot
\* and the stored parameters unchanged; otherwise it goes on with the
\* parameters of the most recent connect() (the stored parameters change
\* with a connect() call only, which stores its own), the task it spawns
\* runs with them, and it does start that connection: as long as a task can
\* still be spawned the call gets to spawn its task.
C20_ReconnectUsesLastParams ==
  /\ [][Reconnect("c1") =>
         IF NeverConnected
           THEN /\ cret' = "No previous connection"
                /\ UNCHANGED <<handle, lastOptions, tpc, cpc>>
           ELSE /\ cop'["c1"] = "reconnect"
                /\ cargs'["c1"] = lastOptions
                /\ lastOptions # NoArgs]_vars
  /\ [][/\ \A args \in AnonymousArgs : ConnectStart("c1", args) => lastOptions' = args
        /\ lastOptions' # lastOptions => \E args \in AnonymousArgs : ConnectStart("c1", args)]_vars
  /\ [][(ConnectSpawn("c1") /\ cop["c1"] = "reconnect") =>
         \E t \in Tasks : tpc[t] = "unborn" /\ tpc'[t] = "dial" /\ topts'[t] = lastOptions]_vars
  /\ (cop["c1"] = "reconnect" /\ \E t \in Tasks : tpc[t] = "unborn")
       ~> (cop["c1"] = "reconnect" /\ cpc["c1"] = "install")

\* ---------------------------------------------------------------------
\* Claims about the subscription TlcsManager (tlcs_client.rs)
\* ---------------------------------------------------------------------

\* C2: for any sequence of connect and disconnect calls at most one
\* connection task of the manager is running, and the writer slot only ever
\* holds the write half installed by the running task, between its install
\* and its closing: when a task is spawned the old one has returned and the
\* slot is empty, and a task that has returned writes and reads no more.
C2_OneConnectionTask ==
  /\ Cardinality({t \in Conns : Running(t)}) <= 1
  /\ writer # NoTask => kpc[writer] \in {"clone", "resend", "read", "closing"}

\* C2 witness: connect() was called over an older connection task, that task
\* has returned, and the new task has installed its connection.
C2_Witness ==
  \E t \in Conns, u \in Conns : t < u /\ kpc[t] = "done" /\ writer = u

\* C5: on the connection in the writer slot, the frame of a subscribe_game
\* call that began after the connection was installed comes after a replayed
\* SUBSCRIBE frame for every id that was in the subscription set when the
\* connection was installed.
C5_ReplayBeforeNewCalls ==
  \A i \in 1..Len(wire) :
    wire[i].by = "call" =>
      \A g \in subsAtInstall :
        \E j \in 1..(i - 1) : wire[j] = Frame("SUBSCRIBE", g, "replay")

\* 2^n
RECURSIVE Pow2(_)
Pow2(n) == IF n <= 0 THEN 1 ELSE 2 * Pow2(n - 1)

\* C6: with reconnect enabled, the delay waited after the k-th consecutive
\* failed or dropped attempt since the last successful dial (or since the
\* start) is min(2^(k-1), 30) seconds; the backoff of a task is never below
\* 1 s and never above 30 s.  (The count k saturates at MaxFails, where the
\* delay has long been 30 s.)
C6_BackoffDelay ==
  \A t \in Conns :
    /\ MIN_BACKOFF_SECS <= backoff[t] /\ backoff[t] <= MAX_BACKOFF_SECS
    /\ kpc[t] = "wait" =>
         /\ krec[t]
         /\ fails[t] >= 1
         /\ backoff[t] = Min(Pow2(fails[t] - 1), MAX_BACKOFF_SECS)

\* C6 witness: a sixth consecutive failure waits the capped delay of 30 s
\* (2^5 = 32 is above the maximum).
C6_Witness ==
  \E t \in Conns : kpc[t] = "wait" /\ fails[t] = 6 /\ backoff[t] = MAX_BACKOFF_SECS

\* C21: whenever a keep-alive ticker of the manager is alive (spawned by
\* start_keep_alive and not aborted), a connection task of the manager is
\* alive too.
C21_TickerNeedsConnection == keepAliveTask => \E t \in Conns : Running(t)

\* The text on the wire up to position n.
RECURSIVE WireText(_)
WireText(n) == IF n = 0 THEN "" ELSE WireText(n - 1) \o bytes[n].text

\* C22: every writer holds the writer mutex for its whole frame: at most one
\* frame is in flight, the pieces of a frame are never separated on the wire
\* by a piece of another frame, and a frame that begins on the wire begins
\* where the frame before it ended.
C22_OneFrameInFlight ==
  /\ Cardinality({w \in Writers : wpc[w].at # "idle"}) <= 1
  /\ \A w \in Writers : wpc[w].at # "idle" => wlock = w
  /\ \A i, j, k \in 1..Len(bytes) :
       (i < j /\ j < k /\ bytes[i].id = bytes[k].id) => bytes[j].id = bytes[i].id
  /\ \A i \in 1..Len(bytes) :
       (i > 1 /\ bytes[i].id # bytes[i - 1].id) =>
          (\/ EndsWithCrLf(WireText(i - 1))
           \/ \A w \in Writers : wpc[w].frame.id # bytes[i - 1].id)

\* The ticker has written a whole frame and a call is half way through its
\* own, right behind it.
C22_Witness ==
  /\ Len(bytes) = 3
  /\ WireText(2) = "PING\r\n"
  /\ wpc["call"].at = "part"
  /\ bytes[3] = [id |-> 2, text |-> "SUBSCRI"]

\* C23: once shutdown has been signalled to a connection task it returns,
\* from the dial, the read wait or the backoff sleep it is in and whatever
\* its reconnect flag, without the dial, the read or the sleep completing;
\* and a disconnect() call returns, with the writer slot empty and no
\* connection task left.
C23_ShutdownStopsTheTask ==
  /\ \A t \in Conns : (stop[t] /\ Running(t)) ~> (kpc[t] = "done")
  /\ (mpc = "disconnect") ~> (mpc = "idle")
  /\ [][ClientDisconnectDone =>
         (writer' = NoTask /\ connectionTask' = NoTask /\ \A t \in Conns : kpc'[t] \in {"unborn", "done"})]_vars

\* Shutdown has been signalled to a task with reconnect enabled that is in
\* its backoff sleep, and disconnect() awaits it.
C23_Witness ==
  \E t \in Conns :
    /\ mpc = "disconnect"
    /\ mheld = t
    /\ stop[t]
    /\ krec[t]
    /\ kpc[t] = "wait"

\* ---------------------------------------------------------------------
\* Claims about start_tlcs_stream
\* ---------------------------------------------------------------------

\* C24: a start_tlcs_stream call that fails at the log directory, at the
\* PGN file or its directory, or at the initial FEN returns an error, spawns
\* no task and leaves the recording handle slot and the recording tasks as
\* they were: a recording that was running stays installed and running.
C24_FailedStartLeavesSlot ==
  [][\A path \in PgnPaths, fail \in {"dir", "pgn", "fen"} :
       StartStream(path, fail) =>
         /\ streamRet' = "err"
         /\ spawned' = spawned
         /\ tlcsHandle' = tlcsHandle
         /\ streamTask' = streamTask]_vars

\* A start that failed at the initial FEN has just returned while the
\* recording of an earlier start is installed and running.
C24_Witness ==
  /\ streamLast.fail = "fen"
  /\ streamLast.found # NoTask
  /\ streamRet = "err"
  /\ tlcsHandle = streamLast.found
  /\ streamTask[tlcsHandle].at = "running"
  /\ spawned = streamLast.tasks

\* ---------------------------------------------------------------------
\* Claims about the calls on the control-channel TlcsManager
\* ---------------------------------------------------------------------

\* C25: every disconnect() returns, and every connect() gets past the
\* shutdown of the connection it replaces (and so returns), whatever the
\* state of the task it stops and whatever its auto_reconnect, given that
\* tasks and calls are scheduled fairly and every dial ends.
C25_CallsReturn ==
  /\ (cpc["c1"] = "djoin") ~> (cpc["c1"] = "idle")
  /\ (cpc["c1"] = "join") ~> (cpc["c1"] = "spawn")

\* ---------------------------------------------------------------------
\* Claims about two writers of the log
\* ---------------------------------------------------------------------

\* C26: with two tasks writing through RotatingLog on one path, under any
\* interleaving of their steps: every file of the log holds whole lines
\* only (a begun line is followed by its own end, or is the last thing in
\* the file while its writer is about to end it); the primary is renamed to
\* backup 1 only when its size is at or above max_bytes; and a rename
\* replaces, and so loses, only the file of the oldest generation, the one
\* named backup max_files.
C26_TwoWritersKeepTheLog ==
  /\ [](\A f \in RaceFiles : \A i \in 1..Len(rfiles[f]) :
          IF rfiles[f][i].part = "head"
            THEN IF i < Len(rfiles[f])
                   THEN rfiles[f][i + 1].part = "tail" /\ rfiles[f][i + 1].line = rfiles[f][i].line
                   ELSE \E w \in RaceWriters : rpc[w].at = "tail" /\ rpc[w].line = rfiles[f][i].line
            ELSE i > 1 /\ rfiles[f][i - 1].part = "head"
                       /\ rfiles[f][i - 1].line = rfiles[f][i].line)
  /\ [](\A d \in discarded : d.name = DEFAULT_ROTATION_FILES)
  /\ [][\A w \in RaceWriters :
          (RacePrimary(w) /\ rnames[0] # 0) =>
            SizeOf(rfiles[rnames[0]]) >= DEFAULT_ROTATION_BYTES]_vars

\* ---------------------------------------------------------------------
\* Claims about subscribe_game without a connection
\* ---------------------------------------------------------------------

\* C27: a subscribe_game call that returns "No active TLCS connection"
\* leaves the subscription set as it was when the call began, so that the
\* id is in no later replay unless another call subscribed it.
C27_FailedSubscribeHasNoEffect ==
  [][(mpc = "send" /\ mpc' = "idle" /\ mret' = "No active TLCS connection") =>
       subscriptions' = mbefore]_vars

\* ---------------------------------------------------------------------
\* Claims about the tokens of one line
\* ---------------------------------------------------------------------

\* C28: in append_moves_from_line a token that is a legal move in the
\* position reached when it is examined is applied and recorded (its write
\* succeeding), and a token that is rejected as not a legal move does not
\* end the line: the tokens after it are still to be processed.
C28_RejectedTokenKeepsTheLine ==
  [][(ret = "busy" /\ pending # <<>>) =>
       /\ (TokenClass(Head(pending), position) = "legal" /\ TokenStep("ok")) =>
            (applied' = applied + 1 /\ Len(moves') = Len(moves) + 1)
       /\ (TokenClass(Head(pending), position) = "not_move") =>
            (pending' = Tail(pending) /\ ret' = "busy")]_vars

\* ---------------------------------------------------------------------
\* Claims about moves after the result
\* ---------------------------------------------------------------------

Words(l) == SplitWhitespace(l)

NamesClock(l, tag) ==
  /\ Words(l) # <<>>
  /\ Head(Words(l)) = "clock"
  /\ \E i \in 2..Len(Words(l)) :
       /\ StripPrefix(Words(l)[i], tag).some
       /\ ParseU64(StripPrefix(Words(l)[i], tag).v).some

NamedFields ==
  [l \in GameLines |->
     (IF Words(l) # <<>> /\ Head(Words(l)) = "fen" THEN {"fen"} ELSE {})
     \cup (IF Words(l) # <<>> /\ Head(Words(l)) = "status" THEN {"status"} ELSE {})
     \cup (IF Words(l) # <<>> /\ Head(Words(l)) = "move" THEN {"last_move"} ELSE {})
     \cup (IF NamesClock(l, "w=") THEN {"white_clock_ms"} ELSE {})
     \cup (IF NamesClock(l, "b=") THEN {"black_clock_ms"} ELSE {})
     \cup (IF OfferOf[l] # None THEN {"can_accept_draw"} ELSE {})]

\* C11: update_state_from_line changes only the fields the line names, plus
\* can_offer_draw and can_resign; every other field keeps the value it had,
\* for every previous state and every line, unrecognised lines included.
C11_OnlyNamedFieldsChange ==
  gseen > 0 =>
    \A f \in {"fen", "status", "last_move", "white_clock_ms", "black_clock_ms",
              "can_accept_draw"} :
      gameState[f] # gprev[f] => f \in NamedFields[gline]

\* C11 witness: the clock line of the example changes both clocks of a state
\* that holds a position, and the position stays.
C11_Witness ==
  /\ gline = "clock w=59000 b=61000"
  /\ gprev.fen.some
  /\ gprev.white_clock_ms = Some("60000")
  /\ gameState.white_clock_ms = Some("59000")
  /\ gameState.black_clock_ms = Some("61000")
  /\ gameState.fen = gprev.fen

\* C12: in a session, before any line can_offer_draw and can_resign are
\* false; once a line has been processed, whatever it holds, both are true
\* and stay true.
C12_OfferAndResignAfterFirstLine ==
  IF gseen = 0
    THEN ~gameState.can_offer_draw /\ ~gameState.can_resign
    ELSE gameState.can_offer_draw /\ gameState.can_resign

\* C12 witness: the first line of a session was blank.
C12_Witness ==
  gseen = 1 /\ gline = "   " /\ gameState.can_offer_draw /\ gameState.can_resign

\* C13: can_accept_draw is true exactly when the most recent offer line of
\* the session ("offer draw" or "offer cancel" after trimming, whatever the
\* letter case) was "offer draw"; it is false before any such line.
C13_AcceptFollowsLastOffer ==
  gameState.can_accept_draw <=> (lastOffer = "draw")

\* C13 witness: an offer in capitals and with padding comes after a
\* cancelled offer.
C13_Witness ==
  /\ gseen = 3
  /\ gline = "  OFFER Draw "
  /\ ~gprev.can_accept_draw
  /\ gameState.can_accept_draw

\* ---------------------------------------------------------------------
\* Claims about RotatingLog
\* ---------------------------------------------------------------------

\* C14: immediately after a write that performed a rotation the primary
\* file is not larger than max_bytes, for every message (here even when
\* every rename has succeeded).
C14_PrimaryWithinMaxAfterRotation ==
  (logLast.rotated /\ logClean) => logFiles[0].size <= DEFAULT_ROTATION_BYTES

\* What C15 says of the files, given the generations rotated so far: a write
\* that found the primary at or above max_bytes left a primary that holds
\* its line alone; backups exist at the indices 1..max_files only; backup i
\* is the i-th most recently rotated generation.
BackupsInRotationOrder ==
  /\ logLast.found >= DEFAULT_ROTATION_BYTES =>
       logFiles[0] = File(logLast.size, logGen) /\ logLast.rotated
  /\ \A n \in LogNames : n > DEFAULT_ROTATION_FILES => ~logFiles[n].exists
  /\ \A i \in 1..DEFAULT_ROTATION_FILES :
       /\ logFiles[i].exists <=> i <= Len(rotated)
       /\ logFiles[i].exists => logFiles[i].gen = rotated[i]

====
